---- MODULE Spec2Model ----
(***************************************************************************)
(* The priority mempool of pkg/mempoor (mempool.go): an indexed max-heap   *)
(* of *txRecord plus the id -> *txRecord table, with Add, Update, Remove,  *)
(* SelectTransactions and List.  Every public method runs under m.mu, so   *)
(* each call is one atomic step.                                           *)
(*                                                                         *)
(* A *txRecord is an address; recs maps the live addresses to the record   *)
(* fields (tx, index).  The heap slice holds addresses and so does the     *)
(* table, exactly as the Go slice and map hold pointers.  Heap positions   *)
(* are 0-based as in the source; heap[i + 1] is the Go h[i].               *)
(*                                                                         *)
(* A *Tx is an address too; objs maps the live Tx objects to their fields. *)
(* A Tx object is named by the fields it was allocated with (the code      *)
(* never compares Tx pointers, so objects allocated with equal fields need *)
(* not be told apart).                                                     *)
(***************************************************************************)
EXTENDS Integers, Sequences, FiniteSets, TLC

(* ------------------------------ bounds -------------------------------- *)

\* Number of distinct transaction ids in the small universe, whose
\* transactions vary freely in fee, gas and timestamp.
MaxIds == 2

\* Number of distinct transaction ids in the large universe, where an id
\* fixes the gas and, but for the first two ids, the fee (six records are
\* the least heap in which heap.Remove must sift the moved record up).
DeepIds == 6

\* Width in bits of the model's unsigned gas counters (uint64 in the source).
UintBits == 2

UintMod == 2 ^ UintBits
MaxUint == UintMod - 1

(* ------------------------------ values -------------------------------- *)

ErrNil == "nil"
ErrTxExists == "mempool: tx already exists"
ErrTxNotFound == "mempool: tx not found"

FeeValues == {1, 2}
GasValues == {1, MaxUint}
TimeValues == {0, 1}

\* Tx: the fields the mempool reads.  IDs are ordered as Go orders strings.
MkTx(id, fee, gas, ts) == [ID |-> id, Fee |-> fee, Gas |-> gas, Timestamp |-> ts]

SmallTxs == {MkTx(id, fee, gas, ts) : id \in 1..MaxIds, fee \in FeeValues,
                                      gas \in GasValues, ts \in TimeValues}

\* In the large universe every third id carries gas 2 and every third the
\* largest gas; the first two ids come with either fee, the others with one
\* fee each, alternating.
FeeOf(id) == IF id % 2 = 1 THEN 1 ELSE 2
GasOf(id) == IF id % 3 = 1 THEN 1 ELSE IF id % 3 = 2 THEN 2 ELSE MaxUint
DeepTxs == {t \in {MkTx(id, fee, GasOf(id), 0) : id \in 1..DeepIds, fee \in FeeValues} :
               t.ID <= 2 \/ t.Fee = FeeOf(t.ID)}

\* BlockConstraints.  MaxTx 0 stands for every MaxTx <= 0: the code tests
\* c.MaxTx <= 0 and nothing else of such a value.
GasLimits == {0, 2}
MaxTxValues == {0, 1, DeepIds}
MinFees == {0, 2}
Constraints == [GasLimit : GasLimits, MaxTx : MaxTxValues, MinFee : MinFees]

NoTx == MkTx(0, 0, 0, 0)
NoConstraints == [GasLimit |-> 0, MaxTx |-> 0, MinFee |-> 0]

Range(f) == {f[x] : x \in DOMAIN f}
Restrict(f, S) == [x \in S |-> f[x]]

(* ------------------------------ txHeap -------------------------------- *)
\* h is [heap |-> sequence of addresses, recs |-> address -> [tx, index],
\* objs |-> the Tx objects]; recs[a].tx is the address of a Tx object.

HeapLen(h) == Len(h.heap)

TxAt(h, i) == h.objs[h.recs[h.heap[i + 1]].tx]

\* Mutant of the comparison in Less: the timestamp is not compared.
Before_noTimestamp(ti, tj) ==
    IF ti.Fee # tj.Fee THEN ti.Fee > tj.Fee
    ELSE ti.ID < tj.ID

\* Mutant of Before: the fee alone decides.
Before_feeOnly(ti, tj) == ti.Fee > tj.Fee

\* The priority order on transactions: fee descending, then timestamp
\* ascending, then id ascending.
Before(ti, tj) ==
    IF ti.Fee # tj.Fee THEN ti.Fee > tj.Fee
    ELSE IF ti.Timestamp # tj.Timestamp THEN ti.Timestamp < tj.Timestamp
    ELSE ti.ID < tj.ID

Less(h, i, j) == Before(TxAt(h, i), TxAt(h, j))

\* Mutant of Swap: the two pointers change places but the records' index
\* fields are left as they were.
Swap_keepsIndex(h, i, j) ==
    [h EXCEPT !.heap = [h.heap EXCEPT ![i + 1] = h.heap[j + 1], ![j + 1] = h.heap[i + 1]]]

Swap(h, i, j) ==
    LET swapped == [h.heap EXCEPT ![i + 1] = h.heap[j + 1], ![j + 1] = h.heap[i + 1]]
        r1 == [h.recs EXCEPT ![swapped[i + 1]].index = i]
        r2 == [r1 EXCEPT ![swapped[j + 1]].index = j]
    IN  [h EXCEPT !.heap = swapped, !.recs = r2]

\* txHeap.Push: append the record at address a and store its position.
Push(h, a) ==
    [h EXCEPT !.heap = Append(h.heap, a),
              !.recs = [h.recs EXCEPT ![a].index = Len(h.heap)]]

\* txHeap.Pop: cut the last record off and mark it as out of the heap.
Pop(h) ==
    LET n == Len(h.heap)
        a == h.heap[n]
    IN  [h   |-> [h EXCEPT !.heap = SubSeq(h.heap, 1, n - 1),
                           !.recs = [h.recs EXCEPT ![a].index = -1]],
         rec |-> a]

(* --------------------------- container/heap --------------------------- *)

\* Go's (j - 1) / 2 truncates toward zero: the parent of 0 is 0.
Parent(j) == IF j = 0 THEN 0 ELSE (j - 1) \div 2

RECURSIVE up(_, _)
up(h, j) ==
    LET i == Parent(j)
    IN  IF i = j \/ ~Less(h, j, i) THEN h
        ELSE up(Swap(h, i, j), i)

\* down returns the heap and the position the record ended at; the Go
\* function returns i > i0.
RECURSIVE down(_, _, _)
down(h, i, n) ==
    LET j1 == 2 * i + 1
        j2 == j1 + 1
        j  == IF j2 < n /\ Less(h, j2, j1) THEN j2 ELSE j1
    IN  IF j1 >= n THEN [h |-> h, i |-> i]
        ELSE IF ~Less(h, j, i) THEN [h |-> h, i |-> i]
        ELSE down(Swap(h, i, j), j, n)

heapPush(h, a) ==
    LET pushed == Push(h, a)
    IN  up(pushed, HeapLen(pushed) - 1)

heapPop(h) ==
    LET n == HeapLen(h) - 1
        d == down(Swap(h, 0, n), 0, n)
    IN  Pop(d.h)

\* Mutant of heap.Remove: the record moved into position i is sifted down
\* only, never up.
heapRemove_downOnly(h, i) ==
    LET n == Len(h.heap) - 1
        fixed == IF n # i THEN down(Swap(h, i, n), i, n).h ELSE h
    IN  Pop(fixed)

heapRemove(h, i) ==
    LET n == HeapLen(h) - 1
        s == Swap(h, i, n)
        d == down(s, i, n)
        fixed == IF n # i
                 THEN (IF ~(d.i > i) THEN up(d.h, i) ELSE d.h)
                 ELSE h
    IN  Pop(fixed)

heapFix(h, i) ==
    LET d == down(h, i, HeapLen(h))
    IN  IF ~(d.i > i) THEN up(d.h, i) ELSE d.h

(* ------------------------------ mempool ------------------------------- *)
\* m is [heap, recs, table, objs]: the fields of the mempool struct, with
\* the records the two of them point to and the Tx objects in memory.

HeapOf(m) == [heap |-> m.heap, recs |-> m.recs, objs |-> m.objs]

\* The fields of the Tx object at address p.
Deref(m, p) == m.objs[p]

\* A caller's newly allocated Tx object with the fields tx.
NewTx(objs, tx) ==
    IF tx \in DOMAIN objs THEN objs
    ELSE [x \in DOMAIN objs \cup {tx} |-> IF x = tx THEN tx ELSE objs[x]]

WithTx(m, tx) == [m EXCEPT !.objs = NewTx(m.objs, tx)]

WithHeap(m, h) == [m EXCEPT !.heap = h.heap, !.recs = h.recs]

\* delete(m.table, id)
Delete(table, id) == Restrict(table, DOMAIN table \ {id})

\* m.table[id] = a
Store(table, id, a) ==
    [x \in DOMAIN table \cup {id} |-> IF x = id THEN a ELSE table[x]]

\* Records no longer referenced from the heap or the table are garbage.
Collect(m) ==
    [m EXCEPT !.recs = Restrict(m.recs, (Range(m.heap) \cup Range(m.table))
                                          \cap DOMAIN m.recs)]

\* The address of a newly allocated txRecord: any address not in use.
NewAddr(m, tx) ==
    IF Deref(m, tx).ID \notin DOMAIN m.recs THEN Deref(m, tx).ID
    ELSE CHOOSE a \in 1..(Cardinality(DOMAIN m.recs) + 1) : a \notin DOMAIN m.recs

NewMempool == [heap |-> << >>, recs |-> << >>, table |-> << >>, objs |-> << >>]

\* Mutant of Add: no check for an id that is already present.
Add_noExistsCheck(m, tx) ==
    LET a == NewAddr(m, tx)
        recs1 == [x \in DOMAIN m.recs \cup {a} |->
                     IF x = a THEN [tx |-> tx, index |-> 0] ELSE m.recs[x]]
        h == heapPush([HeapOf(m) EXCEPT !.recs = recs1], a)
    IN  [m |-> [WithHeap(m, h) EXCEPT !.table = Store(m.table, Deref(m, tx).ID, a)],
         err |-> ErrNil]

\* tx is the address of the caller's Tx object, as in Update.
Add(m, tx) ==
    IF Deref(m, tx).ID \in DOMAIN m.table
    THEN [m |-> m, err |-> ErrTxExists]
    ELSE LET a == NewAddr(m, tx)
             recs1 == [x \in DOMAIN m.recs \cup {a} |->
                          IF x = a THEN [tx |-> tx, index |-> 0] ELSE m.recs[x]]
             h == heapPush([HeapOf(m) EXCEPT !.recs = recs1], a)
         IN  [m |-> [WithHeap(m, h) EXCEPT !.table = Store(m.table, Deref(m, tx).ID, a)],
              err |-> ErrNil]

\* Mutant of Update: an absent id is inserted (update-or-insert).
Update_upsert(m, tx) ==
    IF Deref(m, tx).ID \notin DOMAIN m.table
    THEN Add(m, tx)
    ELSE LET rec == m.table[Deref(m, tx).ID]
             replaced == [HeapOf(m) EXCEPT !.recs = [m.recs EXCEPT ![rec].tx = tx]]
         IN  [m |-> WithHeap(m, heapFix(replaced, replaced.recs[rec].index)),
              err |-> ErrNil]

\* Mutant of Update: the record gets the new transaction and stays where it
\* is in the heap (no heap.Fix).
Update_noFix(m, tx) ==
    IF Deref(m, tx).ID \notin DOMAIN m.table
    THEN [m |-> m, err |-> ErrTxNotFound]
    ELSE LET rec == m.table[Deref(m, tx).ID]
         IN  [m |-> [m EXCEPT !.recs = [m.recs EXCEPT ![rec].tx = tx]],
              err |-> ErrNil]

\* Mutant of Update: the transaction is stored with the latest timestamp
\* instead of its own.
Update_restamps(m, tx) ==
    IF Deref(m, tx).ID \notin DOMAIN m.table
    THEN [m |-> m, err |-> ErrTxNotFound]
    ELSE LET fresh == [Deref(m, tx) EXCEPT !.Timestamp = 1]
             held == WithTx(m, fresh)
             rec == m.table[fresh.ID]
             replaced == [HeapOf(held) EXCEPT !.recs = [held.recs EXCEPT ![rec].tx = fresh]]
         IN  [m |-> WithHeap(held, heapFix(replaced, replaced.recs[rec].index)),
              err |-> ErrNil]

Update(m, tx) ==
    IF Deref(m, tx).ID \notin DOMAIN m.table
    THEN [m |-> m, err |-> ErrTxNotFound]
    ELSE LET rec == m.table[Deref(m, tx).ID]
             replaced == [HeapOf(m) EXCEPT !.recs = [m.recs EXCEPT ![rec].tx = tx]]
         IN  [m |-> WithHeap(m, heapFix(replaced, replaced.recs[rec].index)),
              err |-> ErrNil]

\* Mutant of Remove: the record is taken off the end of the heap slice,
\* whatever its position.
Remove_lastSlot(m, id) ==
    IF id \notin DOMAIN m.table
    THEN [m |-> m, err |-> ErrTxNotFound]
    ELSE LET p == heapRemove(HeapOf(m), Len(m.heap) - 1)
         IN  [m |-> Collect([WithHeap(m, p.h) EXCEPT !.table = Delete(m.table, id)]),
              err |-> ErrNil]

Remove(m, id) ==
    IF id \notin DOMAIN m.table
    THEN [m |-> m, err |-> ErrTxNotFound]
    ELSE LET rec == m.table[id]
             p == heapRemove(HeapOf(m), m.recs[rec].index)
         IN  [m |-> Collect([WithHeap(m, p.h) EXCEPT !.table = Delete(m.table, id)]),
              err |-> ErrNil]

\* Mutant of the loop of SelectTransactions: a transaction below MinFee is
\* not purged but handled like any other.
RECURSIVE selectLoop_noPurge(_, _)
selectLoop_noPurge(st, c) ==
    IF ~(Len(st.txs) < c.MaxTx /\ Len(st.m.heap) > 0) THEN st
    ELSE LET p == heapPop(HeapOf(st.m))
             ptr == p.h.recs[p.rec].tx
             tx == Deref(st.m, ptr)
             popped == WithHeap(st.m, p.h)
         IN  IF c.GasLimit > 0 /\ (st.gasUsed + tx.Gas) % UintMod > c.GasLimit
             THEN selectLoop_noPurge([st EXCEPT
                      !.m = popped,
                      !.skipped = Append(st.skipped, p.rec),
                      !.kept = Append(st.kept, ptr)], c)
             ELSE selectLoop_noPurge([st EXCEPT
                      !.m = [popped EXCEPT !.table = Delete(popped.table, tx.ID)],
                      !.txs = Append(st.txs, ptr),
                      !.gasUsed = (st.gasUsed + tx.Gas) % UintMod], c)

\* Mutant of the loop of SelectTransactions: a purged transaction is popped
\* from the heap but its table entry is left in place.
RECURSIVE selectLoop_purgeKeepsEntry(_, _)
selectLoop_purgeKeepsEntry(st, c) ==
    IF ~(Len(st.txs) < c.MaxTx /\ Len(st.m.heap) > 0) THEN st
    ELSE LET p == heapPop(HeapOf(st.m))
             ptr == p.h.recs[p.rec].tx
             tx == Deref(st.m, ptr)
             popped == WithHeap(st.m, p.h)
         IN  IF tx.Fee < c.MinFee
             THEN selectLoop_purgeKeepsEntry([st EXCEPT
                      !.m = popped,
                      !.purged = Append(st.purged, ptr)], c)
             ELSE IF c.GasLimit > 0 /\ (st.gasUsed + tx.Gas) % UintMod > c.GasLimit
             THEN selectLoop_purgeKeepsEntry([st EXCEPT
                      !.m = popped,
                      !.skipped = Append(st.skipped, p.rec),
                      !.kept = Append(st.kept, ptr)], c)
             ELSE selectLoop_purgeKeepsEntry([st EXCEPT
                      !.m = [popped EXCEPT !.table = Delete(popped.table, tx.ID)],
                      !.txs = Append(st.txs, ptr),
                      !.gasUsed = (st.gasUsed + tx.Gas) % UintMod], c)

\* Mutant of the condition of the loop: the loop ends at the first
\* transaction skipped.
selectMore_stopsAtSkip(st, c) ==
    Len(st.txs) < c.MaxTx /\ Len(st.m.heap) > 0 /\ st.skipped = << >>

\* The condition of the loop of SelectTransactions.
selectMore(st, c) == Len(st.txs) < c.MaxTx /\ Len(st.m.heap) > 0

\* Mutant of the loop body: an accepted transaction is popped from the heap
\* but its table entry is left in place.
selectIter_acceptKeepsEntry(st, c) ==
    LET p == heapPop(HeapOf(st.m))
        ptr == p.h.recs[p.rec].tx
        tx == Deref(st.m, ptr)
        popped == WithHeap(st.m, p.h)
    IN  IF tx.Fee < c.MinFee
        THEN [st EXCEPT !.m = [popped EXCEPT !.table = Delete(popped.table, tx.ID)],
                        !.purged = Append(st.purged, ptr)]
        ELSE IF c.GasLimit > 0 /\ (st.gasUsed + tx.Gas) % UintMod > c.GasLimit
        THEN [st EXCEPT !.m = popped,
                        !.skipped = Append(st.skipped, p.rec),
                        !.kept = Append(st.kept, ptr)]
        ELSE [st EXCEPT !.m = popped,
                        !.txs = Append(st.txs, ptr),
                        !.gasUsed = (st.gasUsed + tx.Gas) % UintMod]

\* One pass through the body of the loop of SelectTransactions.  st carries
\* the mempool, the result so far (a slice of *Tx), the skipped records, and
\* (for observation only) the transactions purged and skipped so far.
selectIter(st, c) ==
    LET p == heapPop(HeapOf(st.m))
        ptr == p.h.recs[p.rec].tx
        tx == Deref(st.m, ptr)
        popped == WithHeap(st.m, p.h)
    IN  IF tx.Fee < c.MinFee
        THEN [st EXCEPT !.m = [popped EXCEPT !.table = Delete(popped.table, tx.ID)],
                        !.purged = Append(st.purged, ptr)]
        ELSE IF c.GasLimit > 0 /\ (st.gasUsed + tx.Gas) % UintMod > c.GasLimit
        THEN [st EXCEPT !.m = popped,
                        !.skipped = Append(st.skipped, p.rec),
                        !.kept = Append(st.kept, ptr)]
        ELSE [st EXCEPT !.m = [popped EXCEPT !.table = Delete(popped.table, tx.ID)],
                        !.txs = Append(st.txs, ptr),
                        !.gasUsed = (st.gasUsed + tx.Gas) % UintMod]

\* The loop of SelectTransactions.
RECURSIVE selectLoop(_, _)
selectLoop(st, c) ==
    IF ~selectMore(st, c) THEN st ELSE selectLoop(selectIter(st, c), c)

\* Mutant of the reinsertion loop: the skipped records are not pushed back.
reinsert_none(h, skipped) == h

\* for _, rec := range skipped { heap.Push(&m.heap, rec) }
RECURSIVE reinsert(_, _)
reinsert(h, skipped) ==
    IF skipped = << >> THEN h
    ELSE reinsert(heapPush(h, Head(skipped)), Tail(skipped))

\* The locals of SelectTransactions on entry.
selectStart(m) ==
    [m |-> m, txs |-> << >>, gasUsed |-> 0, skipped |-> << >>,
     purged |-> << >>, kept |-> << >>]

\* The reinsertion loop of SelectTransactions, after which the locals but
\* the result are dropped.
selectEnd(st) ==
    [st EXCEPT !.m = Collect(WithHeap(st.m, reinsert(HeapOf(st.m), st.skipped)))]

SelectTransactions(m, c) ==
    IF c.MaxTx <= 0 \/ Len(m.heap) = 0 THEN selectStart(m)
    ELSE selectEnd(selectLoop(selectStart(m), c))

\* List: the *Tx of the table's records, in map iteration order (no order).
List(m) == {m.recs[m.table[id]].tx : id \in DOMAIN m.table}

(* ------------------------------- state -------------------------------- *)

VARIABLES
    heap,    \* mempool.heap: the heap slice, a sequence of addresses
    recs,    \* the live txRecord objects, address -> [tx, index]
    table,   \* mempool.table: id -> address
    objs,    \* the live Tx objects, address -> fields
    last,    \* the call that has just returned: its arguments, what it
             \* returned and the mempool it was made on; NoCall once the
             \* caller has taken the result
    inputs,  \* the transactions callers submit in this run
    mu,      \* mempool.mu: the task holding the write lock and the tasks
             \* holding the read lock
    tasks,   \* concurrent callers: for each task its call, how far the call
             \* has got, the locals of the call and what it returned
    serial,  \* the mempool the calls completed so far give when made one
             \* after the other, in the order they released the lock
    gone,    \* history: for each id, whether a call has taken it out of the
             \* mempool and whether Add has put it in again since
    cfg,     \* Node.cfg, which is also the configuration of Node.builder
    blocks,  \* Node.blocks: the chain
    loop,    \* runBlockLoop: its locals height and prevHash, the block it
             \* has built and how far the pass for the current tick has got
    resub,   \* history: the ids added again after a block took them
    pair,    \* two blocks whose hashes are compared
    digests, \* what the calls of Hash made so far returned
    made,    \* the Tx objects NewUnsignedTx and NewTxUpdate have made, each
             \* with the arguments of the call
    rpc,     \* the RPC last served: the request, the failure the handler
             \* met and the HTTP response, until the command has exited
    run      \* Node.run: the context, the HTTP server, the error channel
             \* and what run returned

mempoolVars == <<heap, recs, table, objs>>
taskVars == <<mu, tasks, serial>>
nodeVars == <<cfg, blocks, loop, resub>>
hashVars == <<pair, digests>>
txVars == <<made>>
rpcVars == <<rpc>>
runVars == <<run>>

vars == <<heap, recs, table, objs, last, inputs, mu, tasks, serial, gone,
          cfg, blocks, loop, resub, pair, digests, made, rpc, run>>

mp == [heap |-> heap, recs |-> recs, table |-> table, objs |-> objs]

NoCall == [op |-> "none", tx |-> NoTx, id |-> 0, c |-> NoConstraints,
           err |-> ErrNil, txs |-> << >>, gasUsed |-> 0,
           purged |-> << >>, kept |-> << >>, list |-> {},
           before |-> NewMempool]

Tasks == {"t1", "t2"}
NoTask == "none"

\* sync.RWMutex, unlocked.
Unlocked == [writer |-> NoTask, readers |-> {}]

NoResult == [err |-> ErrNil, txs |-> << >>, gasUsed |-> 0, views |-> {}]

\* A task that is not in a call.  In a call: op, tx, id, c are the call and
\* its arguments; txs, gasUsed, skipped are the locals of SelectTransactions
\* (purged and kept are for observation only); err, txs, gasUsed, list are
\* what the call returns.  seen is what the task read through the pointers
\* of list when List returned them; want is what the serial execution
\* returns for this call.
Idle == [pc |-> "idle", op |-> "none", tx |-> NoTx, id |-> 0, c |-> NoConstraints,
         txs |-> << >>, gasUsed |-> 0, skipped |-> << >>,
         purged |-> << >>, kept |-> << >>,
         err |-> ErrNil, list |-> {}, seen |-> {}, want |-> NoResult]

NoTasks ==
    /\ mu = Unlocked
    /\ tasks = [t \in Tasks |-> Idle]
    /\ serial = NewMempool

EmptyMempool ==
    /\ heap = NewMempool.heap
    /\ recs = NewMempool.recs
    /\ table = NewMempool.table
    /\ objs = NewMempool.objs

\* No history of removals is kept.
NoHistory == gone = << >>

\* No node runs.
NoNode ==
    /\ cfg = NoConstraints
    /\ blocks = << >>
    /\ loop = << >>
    /\ resub = {}

\* No hashes are compared.
NoHashes ==
    /\ pair = << >>
    /\ digests = << >>

\* No Tx is made outside the calls of the run.
NoMade == made = << >>

\* No RPC is served.
NoRpc == rpc = << >>

\* Node.run is not followed.
NoRun == run = << >>

Init ==
    /\ EmptyMempool
    /\ last = NoCall
    /\ inputs \in {SmallTxs, DeepTxs}
    /\ NoTasks
    /\ NoHistory
    /\ NoNode
    /\ NoHashes
    /\ NoMade
    /\ NoRpc
    /\ NoRun

\* The Tx objects m's records point to.
Stored(m) == {m.recs[a].tx : a \in DOMAIN m.recs}

\* The mempool after a call; Tx objects that neither the mempool nor a
\* caller (held) points to any more are garbage.
Install(m, held) ==
    /\ heap' = m.heap
    /\ recs' = m.recs
    /\ table' = m.table
    /\ objs' = Restrict(m.objs, (Stored(m) \cup held) \cap DOMAIN m.objs)

\* What a caller reads through the pointers of a returned slice.
Read(m, ptrs) == [k \in 1..Len(ptrs) |-> Deref(m, ptrs[k])]

Called(op) == [NoCall EXCEPT !.op = op, !.before = mp]

CallAdd(tx) ==
    /\ last = NoCall
    /\ \E r \in {Add(WithTx(mp, tx), tx)} :
          /\ Install(r.m, {})
          /\ last' = [Called("Add") EXCEPT !.tx = tx, !.id = tx.ID, !.err = r.err]
    /\ UNCHANGED inputs

CallUpdate(tx) ==
    /\ last = NoCall
    /\ \E r \in {Update(WithTx(mp, tx), tx)} :
          /\ Install(r.m, {})
          /\ last' = [Called("Update") EXCEPT !.tx = tx, !.id = tx.ID, !.err = r.err]
    /\ UNCHANGED inputs

CallRemove(id) ==
    /\ last = NoCall
    /\ \E r \in {Remove(mp, id)} :
          /\ Install(r.m, {})
          /\ last' = [Called("Remove") EXCEPT !.id = id, !.err = r.err]
    /\ UNCHANGED inputs

CallSelectTransactions(c) ==
    /\ last = NoCall
    /\ \E r \in {SelectTransactions(mp, c)} :
          /\ Install(r.m, {})
          /\ last' = [Called("Select") EXCEPT !.c = c, !.txs = Read(r.m, r.txs),
                         !.gasUsed = r.gasUsed, !.purged = Read(r.m, r.purged),
                         !.kept = Read(r.m, r.kept)]
    /\ UNCHANGED inputs

CallList ==
    /\ last = NoCall
    /\ last' = [Called("List") EXCEPT !.list = {Deref(mp, p) : p \in List(mp)}]
    /\ UNCHANGED <<heap, recs, table, objs, inputs>>

\* The caller takes the result; the next call can be made.
Return ==
    /\ last # NoCall
    /\ last' = NoCall
    /\ UNCHANGED <<heap, recs, table, objs, inputs>>

InputIds == {tx.ID : tx \in inputs}

\* What the calls of one caller leave alone.
callsFrame == <<taskVars, gone, nodeVars, hashVars, txVars, rpcVars, runVars>>

Next ==
    \/ \E tx \in inputs : CallAdd(tx) /\ UNCHANGED callsFrame
    \/ \E tx \in inputs : CallUpdate(tx) /\ UNCHANGED callsFrame
    \/ \E id \in InputIds : CallRemove(id) /\ UNCHANGED callsFrame
    \/ \E c \in Constraints : CallSelectTransactions(c) /\ UNCHANGED callsFrame
    \/ CallList /\ UNCHANGED callsFrame
    \/ Return /\ UNCHANGED callsFrame

Spec == Init /\ [][Next]_vars

(* ------------------------- what the claims use ------------------------ *)

\* The priority order as the specification words it: a is strictly higher
\* in priority than b.
Outranks(a, b) ==
    \/ a.Fee > b.Fee
    \/ a.Fee = b.Fee /\ a.Timestamp < b.Timestamp
    \/ a.Fee = b.Fee /\ a.Timestamp = b.Timestamp /\ a.ID < b.ID

\* The transactions the heap slice of m holds.
HeapTxs(m) == {Deref(m, m.recs[m.heap[k]].tx) : k \in 1..Len(m.heap)}

\* The transactions a caller of List reads.
ListTxs(m) == {Deref(m, p) : p \in List(m)}

Elems(seq) == {seq[k] : k \in 1..Len(seq)}

Ids(S) == {t.ID : t \in S}

RECURSIVE SumGas(_)
SumGas(seq) == IF seq = << >> THEN 0 ELSE Head(seq).Gas + SumGas(Tail(seq))

Returned(op) == last.op = op

(* --------------------------------- C1 --------------------------------- *)

\* C1: after any sequence of Add, Update, Remove and SelectTransactions
\* calls the heap slice is a max-heap under the priority order: no child
\* position holds a transaction of strictly higher priority than its
\* parent position.
C1_HeapProperty ==
    \A c \in 1..(Len(heap) - 1) :
        ~Outranks(objs[recs[heap[c + 1]].tx], objs[recs[heap[Parent(c) + 1]].tx])

\* A select that accepted some and skipped some, leaving three or more
\* records of which one was pushed back.
C1_Witness ==
    /\ Returned("Select")
    /\ last.txs # << >> /\ last.kept # << >>
    /\ Len(heap) >= 3

(* --------------------------------- C2 --------------------------------- *)

\* C2: the table and the heap hold the same records: every table entry for
\* id x points to a record whose tx.ID is x and whose index is the position
\* of that record in the heap, every heap element is in the table under its
\* own id, and the two have equal size.
C2_TableMatchesHeap ==
    /\ \A x \in DOMAIN table :
          /\ table[x] \in DOMAIN recs
          /\ objs[recs[table[x]].tx].ID = x
          /\ recs[table[x]].index \in 0..(Len(heap) - 1)
          /\ heap[recs[table[x]].index + 1] = table[x]
    /\ \A k \in 1..Len(heap) :
          /\ heap[k] \in DOMAIN recs
          /\ objs[recs[heap[k]].tx].ID \in DOMAIN table
          /\ table[objs[recs[heap[k]].tx].ID] = heap[k]
    /\ Cardinality(DOMAIN table) = Len(heap)

\* A select that accepted some, purged some and pushed skipped ones back.
C2_Witness ==
    /\ Returned("Select")
    /\ last.txs # << >> /\ last.purged # << >> /\ last.kept # << >>

(* --------------------------------- C3 --------------------------------- *)

\* C3: Add of an id that is present returns ErrTxExists and leaves the
\* mempool as it was (the existing entry keeps its fields and its heap
\* position, the number of entries is the same); Add of an absent id returns
\* no error and the mempool then contains tx; no two entries ever share an id.
C3_AddContract ==
    /\ Returned("Add") =>
          IF last.tx.ID \in DOMAIN last.before.table
          THEN last.err = ErrTxExists /\ mp = last.before
          ELSE /\ last.err = ErrNil
               /\ last.tx \in ListTxs(mp) /\ last.tx \in HeapTxs(mp)
               /\ Len(heap) = Len(last.before.heap) + 1
    /\ \A j, k \in 1..Len(heap) :
          objs[recs[heap[j]].tx].ID = objs[recs[heap[k]].tx].ID => j = k

\* A duplicate Add whose transaction differs from the stored one, with
\* another transaction stored too.
C3_Witness ==
    /\ Returned("Add") /\ last.err = ErrTxExists
    /\ last.tx \notin ListTxs(mp)
    /\ Len(heap) >= 2

(* --------------------------------- C4 --------------------------------- *)

\* C4: Update and Remove of an id that is not in the mempool return
\* ErrTxNotFound and leave the mempool as it was: Update never inserts,
\* Remove deletes nothing.
C4_StrictNotFound ==
    (Returned("Update") \/ Returned("Remove")) /\ last.id \notin DOMAIN last.before.table
        => /\ last.err = ErrTxNotFound
           /\ mp = last.before

\* An Update of an absent id on a mempool that holds other transactions.
C4_Witness ==
    /\ Returned("Update") /\ last.tx.ID \notin DOMAIN last.before.table
    /\ Len(last.before.heap) >= 1

(* --------------------------------- C5 --------------------------------- *)

\* What a mempool shows: its List as a set and, for every constraint, what
\* SelectTransactions would return on it and leave in it.
Observable(m) ==
    [list |-> ListTxs(m),
     selects |-> [c \in Constraints |->
                    LET r == SelectTransactions(m, c)
                    IN  [txs |-> Read(r.m, r.txs), gasUsed |-> r.gasUsed, left |-> ListTxs(r.m)]]]

\* C5: Remove of a present id deletes exactly that transaction and leaves
\* every other transaction as it was; and after a successful Add(tx), a
\* Remove(tx.ID) gives a mempool that shows what the mempool showed before
\* the Add.
C5_RemoveExactly ==
    /\ Returned("Remove") /\ last.id \in DOMAIN last.before.table =>
          /\ last.err = ErrNil
          /\ ListTxs(mp) = {t \in ListTxs(last.before) : t.ID # last.id}
          /\ HeapTxs(mp) = {t \in HeapTxs(last.before) : t.ID # last.id}
          /\ Len(heap) = Len(last.before.heap) - 1
    /\ Returned("Add") /\ last.err = ErrNil =>
          LET back == Remove(mp, last.tx.ID)
          IN  /\ back.err = ErrNil
              /\ Observable(back.m) = Observable(last.before)

\* A successful Remove of a record that was not in the last heap slot, with
\* two or more transactions left.
C5_Witness ==
    /\ Returned("Remove") /\ last.err = ErrNil
    /\ Len(heap) >= 2
    /\ last.before.recs[last.before.table[last.id]].index < Len(heap)

(* --------------------------------- C6 --------------------------------- *)

\* C6: the transactions SelectTransactions returns are in priority order:
\* each outranks every transaction returned after it.
C6_SelectOrdered ==
    Returned("Select") =>
        \A j, k \in 1..Len(last.txs) :
            j < k => Outranks(last.txs[j], last.txs[k])

\* A select that returned two transactions and skipped one that ranks
\* between them.
C6_Witness ==
    /\ Returned("Select") /\ Len(last.txs) >= 2
    /\ \E t \in Elems(last.kept) :
          Outranks(last.txs[1], t) /\ Outranks(t, last.txs[2])

(* --------------------------------- C7 --------------------------------- *)

\* C7: for every result of SelectTransactions(c), GasUsed is the sum of the
\* gas of the returned transactions, at most c.MaxTx transactions are
\* returned, and GasUsed is at most c.GasLimit when c.GasLimit > 0.
C7_SelectAccounting ==
    Returned("Select") =>
        /\ last.gasUsed = SumGas(last.txs)
        /\ Len(last.txs) <= last.c.MaxTx
        /\ last.c.GasLimit > 0 => last.gasUsed <= last.c.GasLimit

\* The three parts of C7 do hold of every call in which the gas of the
\* returned transactions adds up to less than 2^UintBits.
C7_HoldsWithoutWrap ==
    Returned("Select") /\ SumGas(last.txs) < UintMod => C7_SelectAccounting

(* --------------------------------- C8 --------------------------------- *)

\* C8: after SelectTransactions returns, no transaction it returned and none
\* it purged is in the mempool: not in List, not in the heap, not found by
\* Update or Remove, and not returned by a SelectTransactions that follows.
C8_SelectedAndPurgedGone ==
    Returned("Select") =>
        \A t \in Elems(last.txs) \cup Elems(last.purged) :
            /\ t.ID \notin Ids(ListTxs(mp))
            /\ t.ID \notin Ids(HeapTxs(mp))
            /\ t.ID \notin DOMAIN table
            /\ Update(WithTx(mp, t), t).err = ErrTxNotFound
            /\ Remove(mp, t.ID).err = ErrTxNotFound
            /\ \A c \in Constraints :
                  t.ID \notin {p.ID : p \in Elems(SelectTransactions(mp, c).txs)}

\* A select that returned some, purged some and left some in the mempool.
C8_Witness ==
    /\ Returned("Select")
    /\ last.txs # << >> /\ last.purged # << >>
    /\ Len(heap) >= 1

(* --------------------------------- C9 --------------------------------- *)

\* C9: a transaction skipped for gas is neither returned nor purged and is
\* in the mempool afterwards with the same fields; the scan went on past it
\* (a call that returns fewer than MaxTx transactions has looked at every
\* transaction, so all that is left is what it skipped); and the mempool
\* after the call is the mempool before it minus the returned and the
\* purged transactions.
C9_SkippedKept ==
    Returned("Select") =>
        /\ \A t \in Elems(last.kept) :
              /\ t \in ListTxs(mp) /\ t \in HeapTxs(mp)
              /\ t \in ListTxs(last.before)
              /\ t.ID \notin Ids(Elems(last.txs) \cup Elems(last.purged))
        /\ Len(last.txs) < last.c.MaxTx => ListTxs(mp) = Elems(last.kept)
        /\ ListTxs(mp) = ListTxs(last.before) \ (Elems(last.txs) \cup Elems(last.purged))
        /\ HeapTxs(mp) = HeapTxs(last.before) \ (Elems(last.txs) \cup Elems(last.purged))

\* A select that skipped a transaction and then returned one of lower
\* priority.
C9_Witness ==
    /\ Returned("Select")
    /\ \E t \in Elems(last.kept), u \in Elems(last.txs) : Outranks(t, u)

(* --------------------------------- C10 -------------------------------- *)

Others(m, id) == {t \in ListTxs(m) : t.ID # id}

\* What the SelectTransactions that follows returns, as the caller reads it.
NextSelect(c) == LET r == SelectTransactions(mp, c) IN Read(r.m, r.txs)

\* The parts of C11 that do not depend on MinFee: after a successful
\* Update(tx) the entry of tx.ID carries the fields of tx, every other entry
\* is as it was, and a transaction that some other transaction beats on fee
\* is not what a select of one transaction without gas limit returns.
C11_EntryReplaced ==
    Returned("Update") /\ last.err = ErrNil =>
        /\ Deref(mp, recs[table[last.id]].tx) = last.tx
        /\ ListTxs(mp) = Others(last.before, last.id) \cup {last.tx}
        /\ HeapTxs(mp) = ListTxs(mp)
        /\ Len(heap) = Len(last.before.heap)
        /\ \A c \in Constraints :
              /\ c.MaxTx = 1 /\ c.GasLimit = 0
              /\ \E t \in Others(mp, last.id) : t.Fee > last.tx.Fee
              => NextSelect(c) # <<last.tx>>

\* C11 as claimed: after a successful Update(tx) the entry of tx.ID carries
\* the fields of tx; if the fee of tx is strictly higher than the fee of
\* every other transaction and tx fits the gas limit, the next
\* SelectTransactions with MaxTx = 1 returns exactly tx; a transaction whose
\* fee is below another's is not returned ahead of it.
C11_UpdateReprioritizes ==
    /\ C11_EntryReplaced
    /\ Returned("Update") /\ last.err = ErrNil =>
          \A c \in Constraints :
              /\ c.MaxTx = 1
              /\ \A t \in Others(mp, last.id) : last.tx.Fee > t.Fee
              /\ c.GasLimit = 0 \/ last.tx.Gas <= c.GasLimit
              => NextSelect(c) = <<last.tx>>

\* C11 as amended: the same, for a SelectTransactions whose MinFee the
\* updated fee reaches (a select with a higher MinFee purges the
\* transaction and returns nothing).
C11_UpdateReprioritizesAboveMinFee ==
    /\ C11_EntryReplaced
    /\ Returned("Update") /\ last.err = ErrNil =>
          \A c \in Constraints :
              /\ c.MaxTx = 1
              /\ \A t \in Others(mp, last.id) : last.tx.Fee > t.Fee
              /\ c.GasLimit = 0 \/ last.tx.Gas <= c.GasLimit
              /\ last.tx.Fee >= c.MinFee
              => NextSelect(c) = <<last.tx>>

\* An Update that raised the fee of a transaction that was not at the root
\* above the fee of every other transaction, of which there are two or more.
C11_Witness ==
    /\ Returned("Update") /\ last.err = ErrNil
    /\ Len(heap) >= 3
    /\ last.before.recs[last.before.table[last.id]].index > 0
    /\ \A t \in Others(mp, last.id) : last.tx.Fee > t.Fee

(* ------------------------- concurrent callers ------------------------ *)

\* Several tasks call the mempool at once.  Every method takes m.mu on
\* entry (Lock, or RLock in List) and releases it on return (defer); the
\* steps of a method body are steps of the task that holds the lock.

\* The transactions and constraints the tasks call with: the first MaxIds
\* ids of the large universe, and selects that are not cut short by MaxTx.
FewTxs == {t \in DeepTxs : t.ID <= MaxIds}
ConcConstraints == {c \in Constraints : c.MaxTx = DeepIds}

\* m.mu.Lock() returns when no task holds the lock.
CanLock_noExclusion(lk) == TRUE

CanLock(lk) == lk.writer = NoTask /\ lk.readers = {}

\* m.mu.RLock() returns when no task holds the write lock.
CanRLock_ignoresWriter(lk) == TRUE

CanRLock(lk) == lk.writer = NoTask

\* The Tx objects the tasks point to: arguments, locals and results.
Held(ts) ==
    UNION {(IF ts[t].op \in {"Add", "Update"} THEN {ts[t].tx} ELSE {})
           \cup Elems(ts[t].txs) \cup Elems(ts[t].purged) \cup Elems(ts[t].kept)
           \cup ts[t].list : t \in Tasks}

\* m without the Tx objects it does not point to.
Canon(m) == [m EXCEPT !.objs = Restrict(m.objs, Stored(m) \cap DOMAIN m.objs)]

\* The call of task record k made on the mempool m in one piece: the
\* mempool it gives and what it returns, as the caller reads it.
Apply(m, k) ==
    CASE k.op = "Add" ->
            LET r == Add(WithTx(m, k.tx), k.tx)
            IN  [m |-> Canon(r.m), err |-> r.err, txs |-> << >>, gasUsed |-> 0]
      [] k.op = "Update" ->
            LET r == Update(WithTx(m, k.tx), k.tx)
            IN  [m |-> Canon(r.m), err |-> r.err, txs |-> << >>, gasUsed |-> 0]
      [] k.op = "Remove" ->
            LET r == Remove(m, k.id)
            IN  [m |-> Canon(r.m), err |-> r.err, txs |-> << >>, gasUsed |-> 0]
      [] k.op = "Select" ->
            LET r == SelectTransactions(m, k.c)
            IN  [m |-> Canon(r.m), err |-> ErrNil, txs |-> Read(r.m, r.txs),
                 gasUsed |-> r.gasUsed]
      [] OTHER -> [m |-> m, err |-> ErrNil, txs |-> << >>, gasUsed |-> 0]

\* A task calls a method and arrives at its Lock or RLock.
Invoke(t, op, tx, id, c) ==
    /\ tasks[t].pc = "idle"
    /\ tasks' = [tasks EXCEPT ![t] =
                    [Idle EXCEPT !.pc = "lock", !.op = op, !.tx = tx, !.id = id, !.c = c]]
    /\ objs' = IF op \in {"Add", "Update"} THEN NewTx(objs, tx) ELSE objs
    /\ UNCHANGED <<heap, recs, table, mu, serial, last, inputs>>

GoAdd(t, tx) == Invoke(t, "Add", tx, tx.ID, NoConstraints)
GoUpdate(t, tx) == Invoke(t, "Update", tx, tx.ID, NoConstraints)
GoRemove(t, id) == Invoke(t, "Remove", NoTx, id, NoConstraints)
GoSelectTransactions(t, c) == Invoke(t, "Select", NoTx, 0, c)
GoList(t) == Invoke(t, "List", NoTx, 0, NoConstraints)

\* m.mu.Lock()
Lock(t) ==
    /\ tasks[t].pc = "lock" /\ tasks[t].op # "List"
    /\ CanLock(mu)
    /\ mu' = [mu EXCEPT !.writer = t]
    /\ tasks' = [tasks EXCEPT ![t].pc = "body"]
    /\ UNCHANGED <<mempoolVars, serial, last, inputs>>

\* m.mu.RLock()
RLock(t) ==
    /\ tasks[t].pc = "lock" /\ tasks[t].op = "List"
    /\ CanRLock(mu)
    /\ mu' = [mu EXCEPT !.readers = @ \cup {t}]
    /\ tasks' = [tasks EXCEPT ![t].pc = "body"]
    /\ UNCHANGED <<mempoolVars, serial, last, inputs>>

\* The bodies of Add, Update and Remove.
BodyAdd(t) ==
    /\ tasks[t].pc = "body" /\ tasks[t].op = "Add"
    /\ \E r \in {Add(mp, tasks[t].tx)} :
          /\ tasks' = [tasks EXCEPT ![t].pc = "unlock", ![t].err = r.err]
          /\ Install(r.m, Held(tasks'))
    /\ UNCHANGED <<mu, serial, last, inputs>>

BodyUpdate(t) ==
    /\ tasks[t].pc = "body" /\ tasks[t].op = "Update"
    /\ \E r \in {Update(mp, tasks[t].tx)} :
          /\ tasks' = [tasks EXCEPT ![t].pc = "unlock", ![t].err = r.err]
          /\ Install(r.m, Held(tasks'))
    /\ UNCHANGED <<mu, serial, last, inputs>>

BodyRemove(t) ==
    /\ tasks[t].pc = "body" /\ tasks[t].op = "Remove"
    /\ \E r \in {Remove(mp, tasks[t].id)} :
          /\ tasks' = [tasks EXCEPT ![t].pc = "unlock", ![t].err = r.err]
          /\ Install(r.m, Held(tasks'))
    /\ UNCHANGED <<mu, serial, last, inputs>>

\* The locals of task t in SelectTransactions, with the mempool as it is.
Locals(t) ==
    [m |-> mp, txs |-> tasks[t].txs, gasUsed |-> tasks[t].gasUsed,
     skipped |-> tasks[t].skipped, purged |-> tasks[t].purged, kept |-> tasks[t].kept]

WithLocals(k, st) ==
    [k EXCEPT !.txs = st.txs, !.gasUsed = st.gasUsed, !.skipped = st.skipped,
              !.purged = st.purged, !.kept = st.kept]

\* One pass through the loop of SelectTransactions.  (The early return on
\* c.MaxTx <= 0 or an empty heap is the case in which the loop and the
\* reinsertion have nothing to do.)
BodySelectIter(t) ==
    /\ tasks[t].pc = "body" /\ tasks[t].op = "Select"
    /\ selectMore(Locals(t), tasks[t].c)
    /\ \E st \in {selectIter(Locals(t), tasks[t].c)} :
          /\ tasks' = [tasks EXCEPT ![t] = WithLocals(@, st)]
          /\ Install(st.m, Held(tasks'))
    /\ UNCHANGED <<mu, serial, last, inputs>>

\* The loop is over: the skipped records are pushed back.
BodySelectEnd(t) ==
    /\ tasks[t].pc = "body" /\ tasks[t].op = "Select"
    /\ ~selectMore(Locals(t), tasks[t].c)
    /\ \E st \in {selectEnd(Locals(t))} :
          /\ tasks' = [tasks EXCEPT ![t].pc = "unlock", ![t].skipped = << >>]
          /\ Install(st.m, Held(tasks'))
    /\ UNCHANGED <<mu, serial, last, inputs>>

\* The mempools that are current while the lock is as it is: the serial
\* one, and with a writer in its body also the one its call gives.
Current ==
    {serial} \cup (IF mu.writer = NoTask THEN {}
                   ELSE {Apply(serial, tasks[mu.writer]).m})

\* The body of List.
BodyList(t) ==
    /\ tasks[t].pc = "body" /\ tasks[t].op = "List"
    /\ tasks' = [tasks EXCEPT ![t].pc = "unlock",
                              ![t].list = List(mp),
                              ![t].seen = ListTxs(mp),
                              ![t].want = [NoResult EXCEPT
                                              !.views = {ListTxs(m) : m \in Current}]]
    /\ Install(mp, Held(tasks'))
    /\ UNCHANGED <<mu, serial, last, inputs>>

\* defer m.mu.Unlock(): the call takes its place in the serial order.
Unlock(t) ==
    /\ tasks[t].pc = "unlock" /\ tasks[t].op # "List"
    /\ \E r \in {Apply(serial, tasks[t])} :
          /\ serial' = r.m
          /\ tasks' = [tasks EXCEPT ![t].pc = "done",
                                    ![t].want = [NoResult EXCEPT !.err = r.err,
                                                    !.txs = r.txs, !.gasUsed = r.gasUsed]]
    /\ mu' = [mu EXCEPT !.writer = NoTask]
    /\ UNCHANGED <<mempoolVars, last, inputs>>

\* defer m.mu.RUnlock()
RUnlock(t) ==
    /\ tasks[t].pc = "unlock" /\ tasks[t].op = "List"
    /\ mu' = [mu EXCEPT !.readers = @ \ {t}]
    /\ tasks' = [tasks EXCEPT ![t].pc = "done"]
    /\ UNCHANGED <<mempoolVars, serial, last, inputs>>

\* The caller is done with what the call returned.
Done(t) ==
    /\ tasks[t].pc = "done"
    /\ tasks' = [tasks EXCEPT ![t] = Idle]
    /\ Install(mp, Held(tasks'))
    /\ UNCHANGED <<mu, serial, last, inputs>>

InitConc ==
    /\ EmptyMempool
    /\ last = NoCall
    /\ inputs = FewTxs
    /\ NoTasks
    /\ NoHistory
    /\ NoNode
    /\ NoHashes
    /\ NoMade
    /\ NoRpc
    /\ NoRun

\* What the tasks leave alone.
tasksFrame == <<gone, nodeVars, hashVars, txVars, rpcVars, runVars>>

NextConc ==
    \/ \E t \in Tasks, tx \in inputs : GoAdd(t, tx) /\ UNCHANGED tasksFrame
    \/ \E t \in Tasks, tx \in inputs : GoUpdate(t, tx) /\ UNCHANGED tasksFrame
    \/ \E t \in Tasks, id \in InputIds : GoRemove(t, id) /\ UNCHANGED tasksFrame
    \/ \E t \in Tasks, c \in ConcConstraints : GoSelectTransactions(t, c) /\ UNCHANGED tasksFrame
    \/ \E t \in Tasks : GoList(t) /\ UNCHANGED tasksFrame
    \/ \E t \in Tasks : Lock(t) /\ UNCHANGED tasksFrame
    \/ \E t \in Tasks : RLock(t) /\ UNCHANGED tasksFrame
    \/ \E t \in Tasks : BodyAdd(t) /\ UNCHANGED tasksFrame
    \/ \E t \in Tasks : BodyUpdate(t) /\ UNCHANGED tasksFrame
    \/ \E t \in Tasks : BodyRemove(t) /\ UNCHANGED tasksFrame
    \/ \E t \in Tasks : BodySelectIter(t) /\ UNCHANGED tasksFrame
    \/ \E t \in Tasks : BodySelectEnd(t) /\ UNCHANGED tasksFrame
    \/ \E t \in Tasks : BodyList(t) /\ UNCHANGED tasksFrame
    \/ \E t \in Tasks : Unlock(t) /\ UNCHANGED tasksFrame
    \/ \E t \in Tasks : RUnlock(t) /\ UNCHANGED tasksFrame
    \/ \E t \in Tasks : Done(t) /\ UNCHANGED tasksFrame

SpecConc == InitConc /\ [][NextConc]_vars

(* --------------------------------- C12 -------------------------------- *)

\* What task t got back equals what its call returns in the serial order.
AsSerial(t) ==
    IF tasks[t].op = "List"
    THEN tasks[t].seen \in tasks[t].want.views
    ELSE /\ tasks[t].err = tasks[t].want.err
         /\ Read(mp, tasks[t].txs) = tasks[t].want.txs
         /\ tasks[t].gasUsed = tasks[t].want.gasUsed

\* C12: the calls of concurrent tasks are linearizable.  Each call takes
\* effect at one point between its invocation and its return (where it
\* releases the lock; List where it reads): what it returned is what the
\* same call returns when the calls are made one after the other in the
\* order of these points, the mempool with no writer inside is the mempool
\* that serial execution gives, and the heap property and the agreement of
\* table, heap and index hold whenever no writer is inside.
C12_Linearizable ==
    /\ \A t \in Tasks : tasks[t].pc = "done" => AsSerial(t)
    /\ mu.writer = NoTask =>
          /\ Canon(mp) = serial
          /\ C1_HeapProperty
          /\ C2_TableMatchesHeap

\* One task is inside SelectTransactions, has accepted a transaction and
\* popped one it will push back, so that table and heap disagree, while
\* the other task waits for the lock in Update of the popped transaction.
C12_Witness ==
    \E t, u \in Tasks :
        /\ mu.writer = t /\ tasks[t].op = "Select"
        /\ tasks[t].txs # << >> /\ tasks[t].skipped # << >>
        /\ ~C2_TableMatchesHeap
        /\ tasks[u].pc = "lock" /\ tasks[u].op = "Update"
        /\ tasks[u].id \in Ids(Elems(tasks[t].kept))

(* --------------------------------- C13 -------------------------------- *)

\* C13: what List returned is a snapshot.  The transactions read when it
\* returned are those of the mempool at one instant between call and return
\* (with a writer inside, the mempool as that writer's call found it or as
\* it leaves it, and nothing in between); no id is in it twice; and as long
\* as the caller keeps the result, the pointers returned lead to the same
\* transactions with the same fields, whatever calls are made meanwhile.
C13_ListSnapshot ==
    \A t \in Tasks :
        tasks[t].op = "List" /\ tasks[t].pc \in {"unlock", "done"} =>
            /\ tasks[t].seen \in tasks[t].want.views
            /\ \A p, q \in tasks[t].list : Deref(mp, p).ID = Deref(mp, q).ID => p = q
            /\ {Deref(mp, p) : p \in tasks[t].list} = tasks[t].seen

\* A task holds a List result of two transactions; since List returned,
\* the other task has replaced one of them by Update and is inside a
\* SelectTransactions that has accepted the other.
C13_Witness ==
    \E t, u \in Tasks :
        /\ tasks[t].op = "List" /\ tasks[t].pc = "done"
        /\ Cardinality(tasks[t].seen) = 2
        /\ mu.writer = u /\ tasks[u].op = "Select" /\ Len(tasks[u].txs) = 1
        /\ \E x \in tasks[t].seen : x.ID \in DOMAIN table /\ x \notin ListTxs(mp)
        /\ \E x \in tasks[t].seen : x.ID \notin DOMAIN table

(* ------------------------ the history of the ids --------------------- *)

\* The calls of one caller, with a record of the ids that calls have taken
\* out of the mempool.

\* The ids the call that has just returned took out of the mempool: the id
\* of a successful Remove, the ids SelectTransactions returned or purged.
Taken(call) ==
    CASE call.op = "Remove" /\ call.err = ErrNil -> {call.id}
      [] call.op = "Select" -> Ids(Elems(call.txs) \cup Elems(call.purged))
      [] OTHER -> {}

\* The id a successful Add put in.
PutIn(call) == IF call.op = "Add" /\ call.err = ErrNil THEN {call.id} ELSE {}

Track ==
    gone' = [id \in DOMAIN gone |->
                IF id \in Taken(last') THEN "gone"
                ELSE IF id \in PutIn(last') /\ gone[id] # "never" THEN "back"
                ELSE gone[id]]

InitGone ==
    /\ EmptyMempool
    /\ last = NoCall
    /\ inputs = SmallTxs
    /\ NoTasks
    /\ gone = [id \in InputIds |-> "never"]
    /\ NoNode
    /\ NoHashes
    /\ NoMade
    /\ NoRpc
    /\ NoRun

goneFrame == <<taskVars, nodeVars, hashVars, txVars, rpcVars, runVars>>

NextGone ==
    \/ \E tx \in inputs : CallAdd(tx) /\ Track /\ UNCHANGED goneFrame
    \/ \E tx \in inputs : CallUpdate(tx) /\ Track /\ UNCHANGED goneFrame
    \/ \E id \in InputIds : CallRemove(id) /\ Track /\ UNCHANGED goneFrame
    \/ \E c \in Constraints : CallSelectTransactions(c) /\ Track /\ UNCHANGED goneFrame
    \/ CallList /\ Track /\ UNCHANGED goneFrame
    \/ Return /\ Track /\ UNCHANGED goneFrame

SpecGone == InitGone /\ [][NextGone]_vars

(* --------------------------------- C14 -------------------------------- *)

\* The mempool does not hold id: not in the table, not in List, not in the
\* heap, and no SelectTransactions made now returns it.
Absent(id) ==
    /\ id \notin DOMAIN table
    /\ id \notin Ids(ListTxs(mp))
    /\ id \notin Ids(HeapTxs(mp))
    /\ \A c \in Constraints : id \notin Ids(Elems(NextSelect(c)))

\* C14 as claimed: a transaction that SelectTransactions returned or purged
\* or that Remove removed is absent from the mempool in every later state.
C14_NeverBack ==
    \A id \in DOMAIN gone : gone[id] # "never" => Absent(id)

\* C14 as amended: such a transaction is absent from the mempool in every
\* later state up to an Add of its id; no Update, Remove or
\* SelectTransactions (with its re-insertion of skipped records) brings it
\* back.
C14_BackOnlyByAdd ==
    \A id \in DOMAIN gone : gone[id] = "gone" => Absent(id)

\* After an id was taken out, a SelectTransactions has skipped a record
\* and pushed it back.
C14_Witness ==
    /\ Returned("Select") /\ last.kept # << >>
    /\ \E id \in DOMAIN gone : gone[id] = "gone" /\ id \notin Taken(last)

(* ------------------------------- blocks ------------------------------- *)

\* time.Time: an instant and the location it is shown in.
UTC == [name |-> "Z", offset |-> 0]
Zones == {UTC, [name |-> "+01:00", offset |-> 1]}
MkTime(instant, zone) == [instant |-> instant, zone |-> zone]

\* The decimal digits of n, as strconv.FormatUint(n, 10) and strconv.Itoa
\* write them.
Digits == <<"0", "1", "2", "3", "4", "5", "6", "7", "8", "9">>
RECURSIVE Dec(_)
Dec(n) == IF n < 10 THEN <<Digits[n + 1]>> ELSE Dec(n \div 10) \o <<Digits[(n % 10) + 1]>>

\* Mutant of FormatTime: the time is written in its own location.
FormatTime_local(t) == Dec(t.instant + t.zone.offset) \o <<t.zone.name>>

\* t.UTC().Format(time.RFC3339Nano): the instant, written in UTC.
FormatTime(t) == Dec(t.instant) \o <<UTC.name>>

\* []byte(tx.ID): an id is the string of its decimal digits.
IdBytes(id) == Dec(id)

RECURSIVE WriteIds(_)
WriteIds(ids) == IF ids = << >> THEN << >> ELSE IdBytes(Head(ids)) \o WriteIds(Tail(ids))

\* A digest is known by the bytes that were hashed (SHA-256 taken to be
\* free of collisions); its 32 bytes are written between brackets.
Sha256(bytes) == <<"[">> \o bytes \o <<"]">>

\* var prevHash [32]byte: 32 zero bytes.
ZeroHash == <<"[", "]">>

NoHeader == [Height |-> 0, PrevHash |-> ZeroHash, Timestamp |-> MkTime(0, UTC),
             TxCount |-> 0, GasUsed |-> 0]

\* A nil *Block.
NoBlock == [Header |-> NoHeader, Transactions |-> << >>]

\* Block.Hash for a block whose transactions have the ids txIds, in order.
HashOf(header, txIds) ==
    Sha256(<<"height=">> \o Dec(header.Height)
           \o <<"|timestamp=">> \o FormatTime(header.Timestamp)
           \o <<"|txcount=">> \o Dec(header.TxCount)
           \o <<"|gasused=">> \o Dec(header.GasUsed)
           \o header.PrevHash
           \o WriteIds(txIds))

\* Block.Hash; objs are the Tx objects the block points to.
Hash(b, os) == HashOf(b.Header, [k \in 1..Len(b.Transactions) |-> os[b.Transactions[k]].ID])

(* ------------------------------- builder ------------------------------ *)

ErrEmptyBlock == "blockbuilder: no transactions selected"

\* Mutant of BuildBlock: a block is made of an empty selection too.
BuildBlock_noEmptyCheck(m, bcfg, prevHash, height, now) ==
    LET selection == SelectTransactions(m, bcfg)
    IN  [m |-> selection.m,
         block |-> [Header |-> [Height |-> height, PrevHash |-> prevHash,
                                Timestamp |-> now,
                                TxCount |-> Len(selection.txs),
                                GasUsed |-> selection.gasUsed],
                    Transactions |-> selection.txs],
         err |-> ErrNil]

\* Mutant of BuildBlock: the selection is read off the mempool and left in it.
BuildBlock_leavesSelected(m, bcfg, prevHash, height, now) ==
    LET selection == SelectTransactions(m, bcfg)
    IN  IF Len(selection.txs) = 0
        THEN [m |-> selection.m, block |-> NoBlock, err |-> ErrEmptyBlock]
        ELSE [m |-> m,
              block |-> [Header |-> [Height |-> height, PrevHash |-> prevHash,
                                     Timestamp |-> now,
                                     TxCount |-> Len(selection.txs),
                                     GasUsed |-> selection.gasUsed],
                         Transactions |-> selection.txs],
              err |-> ErrNil]

\* Mutant of BuildBlock: heights are counted from one.
BuildBlock_countsFromOne(m, bcfg, prevHash, height, now) ==
    LET selection == SelectTransactions(m, bcfg)
    IN  IF Len(selection.txs) = 0
        THEN [m |-> selection.m, block |-> NoBlock, err |-> ErrEmptyBlock]
        ELSE [m |-> selection.m,
              block |-> [Header |-> [Height |-> height + 1, PrevHash |-> prevHash,
                                     Timestamp |-> now,
                                     TxCount |-> Len(selection.txs),
                                     GasUsed |-> selection.gasUsed],
                         Transactions |-> selection.txs],
              err |-> ErrNil]

\* BlockBuilder.BuildBlock on the mempool m of the builder whose
\* configuration is bcfg (a BlockBuilderConfig, here with the field names
\* of the BlockConstraints made of it): the mempool after the call, the
\* block and the error.
BuildBlock(m, bcfg, prevHash, height, now) ==
    LET selection == SelectTransactions(m, bcfg)
    IN  IF Len(selection.txs) = 0
        THEN [m |-> selection.m, block |-> NoBlock, err |-> ErrEmptyBlock]
        ELSE [m |-> selection.m,
              block |-> [Header |-> [Height |-> height, PrevHash |-> prevHash,
                                     Timestamp |-> now,
                                     TxCount |-> Len(selection.txs),
                                     GasUsed |-> selection.gasUsed],
                         Transactions |-> selection.txs],
              err |-> ErrNil]

(* -------------------------------- node -------------------------------- *)

\* A node: the block loop, which on every tick builds a block, stores it
\* and moves the tip, and the handlers of tx.add, tx.update and tx.remove.
\* Every mempool method is one step (C12), and so is every handler.

\* Most blocks a run produces.
MaxBlocks == 2

\* NodeConfig: GasLimit, MaxTxPerBlock (here MaxTx) and MinFee.
NodeConfigs == {c \in Constraints : c.MaxTx = DeepIds}

\* What tx.add submits.  An id stands for a sender, a recipient, a payload
\* and the clock reading that made it, which is also the Timestamp of the
\* new transaction; fee and gas are the caller's.
CreatedAt(id) == id % 2
NodeGas(id) == IF id % 2 = 1 THEN 1 ELSE MaxUint
NodeIds == {1, 2}
NodeTxs == {MkTx(id, fee, NodeGas(id), CreatedAt(id)) : id \in NodeIds, fee \in FeeValues}

\* The clock reading of a tx.update: the last one, not before the reading
\* that made the transaction.
UpdateTimes == {t \in TimeValues : \A u \in TimeValues : u <= t}

\* NewTxUpdate(existing.ID, ..., p.Fee, existing.Gas, existing.CreatedAt),
\* in the fields the mempool reads.
UpdatedTx(existing, fee, now) == MkTx(existing.ID, fee, existing.Gas, now)

\* The locals of runBlockLoop on entry.  pc is "wait" at the select, "built"
\* with a block to store, "stored" with the tip to move; missed says that a
\* tick since the last block produced none (for observation only).
LoopStart == [pc |-> "wait", height |-> 0, prevHash |-> ZeroHash,
              block |-> NoBlock, missed |-> FALSE]

\* The ids of the transactions of block b.
BlockIds(b) == {objs[b.Transactions[k]].ID : k \in 1..Len(b.Transactions)}

\* The ids in the blocks of the chain, and in the block not yet stored.
ChainIds == UNION {BlockIds(blocks[i]) : i \in 1..Len(blocks)}
TakenIds == ChainIds \cup BlockIds(loop.block)

\* The Tx objects the node points to from outside the mempool.
NodeHeld(bs, lp) ==
    UNION {Elems(bs[i].Transactions) : i \in 1..Len(bs)}
    \cup Elems(lp.block.Transactions)

\* A run is followed until the loop has built MaxBlocks blocks.
Built == Len(blocks) + (IF loop.pc = "built" THEN 1 ELSE 0)
Running == Built < MaxBlocks

\* Mutant of Tick: a tick without a block counts the height up as well.
Tick_countsEmptyTicks(now) ==
    /\ Running
    /\ loop.pc = "wait"
    /\ \E r \in {BuildBlock(mp, cfg, loop.prevHash, loop.height, now)} :
          /\ loop' = IF r.err = ErrEmptyBlock
                     THEN [loop EXCEPT !.missed = TRUE, !.height = @ + 1]
                     ELSE [loop EXCEPT !.pc = "built", !.block = r.block]
          /\ Install(r.m, NodeHeld(blocks, loop'))
    /\ UNCHANGED <<cfg, blocks, resub>>

\* case <-ticker.C: BuildBlock; on ErrEmptyBlock continue.
Tick(now) ==
    /\ Running
    /\ loop.pc = "wait"
    /\ \E r \in {BuildBlock(mp, cfg, loop.prevHash, loop.height, now)} :
          /\ loop' = IF r.err = ErrEmptyBlock
                     THEN [loop EXCEPT !.missed = TRUE]
                     ELSE [loop EXCEPT !.pc = "built", !.block = r.block]
          /\ Install(r.m, NodeHeld(blocks, loop'))
    /\ UNCHANGED <<cfg, blocks, resub>>

\* Mutant of StoreBlock: the block is put in front of the chain.
StoreBlock_atFront ==
    /\ loop.pc = "built"
    /\ blocks' = <<loop.block>> \o blocks
    /\ loop' = [loop EXCEPT !.pc = "stored"]
    /\ UNCHANGED <<mempoolVars, cfg, resub>>

\* n.blocks = append(n.blocks, block), under blocksMu.
StoreBlock ==
    /\ loop.pc = "built"
    /\ blocks' = Append(blocks, loop.block)
    /\ loop' = [loop EXCEPT !.pc = "stored"]
    /\ UNCHANGED <<mempoolVars, cfg, resub>>

\* Mutant of NextTip: the height is counted, the hash is not taken.
NextTip_keepsPrevHash(lp, os) ==
    [lp EXCEPT !.pc = "wait", !.height = lp.height + 1,
               !.block = NoBlock, !.missed = FALSE]

\* prevHash = block.Hash(); height++ (no run reaches a height that wraps).
NextTip(lp, os) ==
    [lp EXCEPT !.pc = "wait", !.prevHash = Hash(lp.block, os),
               !.height = lp.height + 1,
               !.block = NoBlock, !.missed = FALSE]

MoveTip ==
    /\ loop.pc = "stored"
    /\ loop' = NextTip(loop, objs)
    /\ UNCHANGED <<mempoolVars, cfg, blocks, resub>>

\* tx.add: NewUnsignedTx, then Add.
RpcTxAdd(tx) ==
    /\ Running
    /\ \E r \in {Add(WithTx(mp, tx), tx)} :
          /\ Install(r.m, NodeHeld(blocks, loop))
          /\ resub' = IF r.err = ErrNil /\ tx.ID \in TakenIds
                      THEN resub \cup {tx.ID} ELSE resub
    /\ UNCHANGED <<cfg, blocks, loop>>

\* tx.update: findTxByID over List, NewTxUpdate, then Update, taken as one
\* step.  (With no transaction of the id in List the handler answers and
\* changes nothing.)
RpcTxUpdate(id, fee, now) ==
    /\ Running
    /\ \E existing \in ListTxs(mp) :
          /\ existing.ID = id
          /\ \E updated \in {UpdatedTx(existing, fee, now)} :
                \E r \in {Update(WithTx(mp, updated), updated)} :
                    Install(r.m, NodeHeld(blocks, loop))
    /\ UNCHANGED <<cfg, blocks, loop, resub>>

\* tx.remove
RpcTxRemove(id) ==
    /\ Running
    /\ \E r \in {Remove(mp, id)} : Install(r.m, NodeHeld(blocks, loop))
    /\ UNCHANGED <<cfg, blocks, loop, resub>>

InitNode ==
    /\ EmptyMempool
    /\ last = NoCall
    /\ inputs = NodeTxs
    /\ NoTasks
    /\ NoHistory
    /\ NoHashes
    /\ NoMade
    /\ NoRpc
    /\ NoRun
    /\ cfg \in NodeConfigs
    /\ blocks = << >>
    /\ loop = LoopStart
    /\ resub = {}

nodeFrame == <<last, inputs, taskVars, gone, hashVars, txVars, rpcVars, runVars>>

NextNode ==
    \/ \E now \in TimeValues : Tick(MkTime(now, UTC)) /\ UNCHANGED nodeFrame
    \/ StoreBlock /\ UNCHANGED nodeFrame
    \/ MoveTip /\ UNCHANGED nodeFrame
    \/ \E tx \in inputs : RpcTxAdd(tx) /\ UNCHANGED nodeFrame
    \/ \E id \in InputIds, fee \in FeeValues, now \in UpdateTimes :
          RpcTxUpdate(id, fee, now) /\ UNCHANGED nodeFrame
    \/ \E id \in InputIds : RpcTxRemove(id) /\ UNCHANGED nodeFrame

SpecNode == InitNode /\ [][NextNode]_vars

\* The blocks the node has: those of the chain and the one built and not
\* yet stored.
NodeBlocks == Range(blocks) \cup (IF loop.pc = "wait" THEN {} ELSE {loop.block})

\* The ids the mempool holds, wherever it holds them.
MempoolIds == DOMAIN table \cup Ids(ListTxs(mp)) \cup Ids(HeapTxs(mp))

(* --------------------------------- C15 -------------------------------- *)

\* C15: no empty blocks.  Every block the node has holds at least one
\* transaction; when the selection the mempool would return is empty,
\* BuildBlock returns ErrEmptyBlock and no block, and a step of the node
\* waiting for its tick appends nothing and leaves the loop waiting, whether
\* the mempool is empty or holds only transactions that are purged or skipped.
C15_NoEmptyBlocks ==
    [][/\ \A b \in NodeBlocks' : Len(b.Transactions) >= 1 /\ b.Header.TxCount >= 1
       /\ SelectTransactions(mp, cfg).txs = << >> =>
             /\ \A now \in TimeValues :
                   \E r \in {BuildBlock(mp, cfg, loop.prevHash, loop.height, MkTime(now, UTC))} :
                       r.err = ErrEmptyBlock /\ r.block = NoBlock
             /\ loop.pc = "wait" => blocks' = blocks /\ loop'.pc = "wait"]_vars

\* After a block, a tick has produced none, and the mempool holds
\* transactions of which a selection would return none.
C15_Witness ==
    /\ Len(blocks) >= 1
    /\ loop.pc = "wait" /\ loop.missed
    /\ DOMAIN table # {}
    /\ SelectTransactions(mp, cfg).txs = << >>

(* --------------------------------- C16 -------------------------------- *)

\* C16: the chain is contiguous and hash-linked.  The block at position i
\* (from 0) has height i, block 0 has the zero hash as PrevHash, every
\* later block has the hash of the block before it, in every state, those
\* after ticks without a block included.
C16_ChainLinked ==
    \A i \in 1..Len(blocks) :
        /\ blocks[i].Header.Height = i - 1
        /\ blocks[i].Header.PrevHash =
              (IF i = 1 THEN ZeroHash ELSE Hash(blocks[i - 1], objs))

\* A second block is stored after a tick that produced no block.
C16_Witness == Len(blocks) >= 2 /\ loop.pc = "stored" /\ loop.missed

(* --------------------------------- C17 -------------------------------- *)

\* C17 as claimed: of every block the node has, the header's GasUsed is the
\* sum of the Gas of its transactions and the header's TxCount is their
\* number.
C17_HeaderSums ==
    \A b \in NodeBlocks :
        /\ b.Header.GasUsed = SumGas(Read(mp, b.Transactions))
        /\ b.Header.TxCount = Len(b.Transactions)

(* --------------------------------- C18 -------------------------------- *)

\* The ids of block b in the order of its transactions.
BlockIdSeq(b) == [k \in 1..Len(b.Transactions) |-> objs[b.Transactions[k]].ID]

\* The number of times id is in the chain.
RECURSIVE CountIn(_, _)
CountIn(ids, id) ==
    IF ids = << >> THEN 0
    ELSE (IF Head(ids) = id THEN 1 ELSE 0) + CountIn(Tail(ids), id)

RECURSIVE ChainIdSeq(_)
ChainIdSeq(bs) == IF bs = << >> THEN << >> ELSE BlockIdSeq(Head(bs)) \o ChainIdSeq(Tail(bs))

\* id is in no block of the chain or in one place of it, and when a block of
\* the chain or the block not yet stored has it, the mempool has not.
IncludedOnce(id) ==
    /\ CountIn(ChainIdSeq(blocks), id) <= 1
    /\ id \in TakenIds => id \notin MempoolIds

\* C18 as claimed: no id is both in the mempool and in a block, and no id
\* is in the chain twice; between the selection and the append the ids of
\* the new block are in neither.
C18_IncludedOnce == \A id \in InputIds : IncludedOnce(id)

\* C18 as amended: the same, of every id that no tx.add has submitted
\* again after a block took it.
C18_IncludedOnceUnlessAddedAgain == \A id \in InputIds \ resub : IncludedOnce(id)

\* A block is built and not yet stored, with a transaction never submitted
\* twice, while the mempool holds another.
C18_Witness ==
    /\ loop.pc = "built"
    /\ BlockIds(loop.block) \ resub # {}
    /\ MempoolIds # {}

(* --------------------------------- C19 -------------------------------- *)

\* C19: a tick that builds a block builds it of a selection that is not
\* empty, with the PrevHash, the Height and the time the loop supplied, the
\* TxCount the length of the selection, the GasUsed the mempool reported
\* and the transactions of the selection in its order; so the blocks of
\* successive ticks carry each their own arguments.
C19_BlockAsSupplied ==
    [][\A now \in TimeValues :
          Tick(MkTime(now, UTC)) /\ loop'.pc = "built" =>
              \E selection \in {SelectTransactions(mp, cfg)} :
                  /\ Len(selection.txs) > 0
                  /\ loop'.block.Header.PrevHash = loop.prevHash
                  /\ loop'.block.Header.Height = loop.height
                  /\ loop'.block.Header.Timestamp = MkTime(now, UTC)
                  /\ loop'.block.Header.TxCount = Len(selection.txs)
                  /\ loop'.block.Header.GasUsed = selection.gasUsed
                  /\ loop'.block.Transactions = selection.txs]_vars

\* A second block is built at another time than the first, which holds two
\* transactions.
C19_Witness ==
    /\ Len(blocks) >= 1
    /\ loop.pc = "built"
    /\ Len(blocks[1].Transactions) >= 2
    /\ loop.block.Header.Timestamp # blocks[1].Header.Timestamp
    /\ loop.block.Header.PrevHash # blocks[1].Header.PrevHash

(* -------------------------------- hashes ------------------------------ *)

\* Block.Hash called on two blocks, any number of times in any order; every
\* call adds the block it took and the digest it returned to digests.

\* Most calls a run makes.
MaxHashCalls == 3

\* Transactions: id 1 with two choices of the other fields, and id 11, which
\* id 1 is the beginning of (a TxID is any string).
HashTxs == {MkTx(1, 1, 1, 0), MkTx(1, 2, MaxUint, 1), MkTx(11, 1, 1, 0)}

HashTxLists == {<<t>> : t \in HashTxs} \cup {<<t, u>> : t \in HashTxs, u \in HashTxs}

\* Headers: the Timestamp is any instant in any location.
HashHeaders ==
    [Height : {0, 1}, PrevHash : {ZeroHash},
     Timestamp : {MkTime(i, z) : i \in TimeValues, z \in Zones},
     TxCount : {2}, GasUsed : {MaxUint}]

HashBlocks == [Header : HashHeaders, Transactions : HashTxLists]

\* b.Hash() for the k-th block.
CallHash(k) ==
    /\ Len(digests) < MaxHashCalls
    /\ digests' = Append(digests, [of |-> k, sum |-> Hash(pair[k], objs)])
    /\ UNCHANGED pair

InitHash ==
    /\ heap = << >> /\ recs = << >> /\ table = << >>
    /\ last = NoCall
    /\ inputs = HashTxs
    /\ NoTasks
    /\ NoHistory
    /\ NoNode
    /\ NoMade
    /\ NoRpc
    /\ NoRun
    /\ pair \in HashBlocks \X HashBlocks
    /\ objs = [t \in Elems(pair[1].Transactions) \cup Elems(pair[2].Transactions) |-> t]
    /\ digests = << >>

hashFrame == <<mempoolVars, last, inputs, taskVars, gone, nodeVars, txVars, rpcVars, runVars>>

NextHash == \E k \in DOMAIN pair : CallHash(k) /\ UNCHANGED hashFrame

SpecHash == InitHash /\ [][NextHash]_vars

(* --------------------------------- C20 -------------------------------- *)

\* What the claim says a hash depends on: the header fields, with the
\* instant of the timestamp, and the ids of the transactions in order.
HashInputs(b) ==
    [Height |-> b.Header.Height, PrevHash |-> b.Header.PrevHash,
     Instant |-> b.Header.Timestamp.instant,
     TxCount |-> b.Header.TxCount, GasUsed |-> b.Header.GasUsed,
     ids |-> BlockIdSeq(b)]

\* C20: Block.Hash is deterministic.  Any two calls, on one block or on two,
\* early or late, that took blocks with equal header fields (the timestamp
\* as an instant) and equal sequences of ids returned equal digests,
\* whatever the other fields of the transactions and the location of the
\* timestamp.
C20_HashDeterministic ==
    \A i \in DOMAIN digests, j \in DOMAIN digests :
        HashInputs(pair[digests[i].of]) = HashInputs(pair[digests[j].of])
            => digests[i].sum = digests[j].sum

\* Hash was called on one block, on the other and on the first again; the
\* blocks are equal in what the claim names, and differ in the location of
\* the timestamp and in the fee and gas of a transaction.
C20_Witness ==
    /\ Len(digests) = 3
    /\ digests[1].of = 1 /\ digests[2].of = 2 /\ digests[3].of = 1
    /\ HashInputs(pair[1]) = HashInputs(pair[2])
    /\ pair[1].Header.Timestamp.zone # pair[2].Header.Timestamp.zone
    /\ pair[1].Transactions # pair[2].Transactions

(* --------------------------------- C21 -------------------------------- *)

\* C21 as claimed: any two calls that took blocks differing in a header
\* field, in a transaction id or in the order of the transactions returned
\* different digests (the bytes hashed differ).
C21_HashInjective ==
    \A i \in DOMAIN digests, j \in DOMAIN digests :
        HashInputs(pair[digests[i].of]) # HashInputs(pair[digests[j].of])
            => digests[i].sum # digests[j].sum

(* ---------------------------------- tx -------------------------------- *)

\* Tx with all its fields, as NewUnsignedTx and NewTxUpdate make it.  A
\* string is the sequence of its characters; a time is its instant, in
\* nanoseconds (both constructors take time.Now().UTC()).

Senders == {<<"a">>, <<"b">>}
Recipients == {<<"c">>}
Payloads == {<< >>, <<"p">>}

\* sender + "|" + recipient + "|" + payload + "|" + FormatInt(UnixNano)
RawId(sender, recipient, payload, createdAt) ==
    sender \o <<"|">> \o recipient \o <<"|">> \o payload \o <<"|">> \o Dec(createdAt)

\* The digests GenerateTxID can return on the strings and times of a run.
IdDigests ==
    {Sha256(RawId(s, r, p, t)) : s \in Senders \cup {<< >>}, r \in Recipients \cup {<< >>},
                                 p \in Payloads, t \in TimeValues}

RECURSIVE InSomeOrder(_)
InSomeOrder(S) ==
    IF S = {} THEN << >>
    ELSE LET x == CHOOSE y \in S : TRUE IN <<x>> \o InSomeOrder(S \ {x})

\* hex.EncodeToString(hash[:]) as a TxID.  Ids are numbers ordered as Go
\* orders the strings: the hex strings of the digests fall in some order,
\* one and the same throughout.
HexOrder == InSomeOrder(IdDigests)
HexId(digest) == CHOOSE k \in DOMAIN HexOrder : HexOrder[k] = digest

\* Mutant of GenerateTxID: the time is taken in a coarser unit.
GenerateTxID_coarseClock(sender, recipient, payload, createdAt) ==
    HexId(Sha256(RawId(sender, recipient, payload, createdAt \div 2)))

GenerateTxID(sender, recipient, payload, createdAt) ==
    HexId(Sha256(RawId(sender, recipient, payload, createdAt)))

FullTx(id, sender, recipient, payload, fee, gas, createdAt, timestamp) ==
    [ID |-> id, Sender |-> sender, Recipient |-> recipient, Fee |-> fee,
     Gas |-> gas, Payload |-> payload, CreatedAt |-> createdAt,
     Timestamp |-> timestamp]

\* NewUnsignedTx, with now the value of time.Now().
NewUnsignedTx(sender, recipient, payload, fee, gas, now) ==
    FullTx(GenerateTxID(sender, recipient, payload, now), sender, recipient,
           payload, fee, gas, now, now)

\* Mutant of NewTxUpdate: the gas is not carried over.
NewTxUpdate_dropsGas(id, sender, recipient, payload, fee, gas, createdAt, now) ==
    FullTx(id, sender, recipient, payload, fee, 0, createdAt, now)

\* NewTxUpdate, with now the value of time.Now().
NewTxUpdate(id, sender, recipient, payload, fee, gas, createdAt, now) ==
    FullTx(id, sender, recipient, payload, fee, gas, createdAt, now)

\* Two transactions are made and updated any number of times.
Slots == {"x", "y"}

NoFullTx == FullTx(0, << >>, << >>, << >>, 0, 0, 0, 0)

\* Nothing made in a slot yet.
NotMade == [first |-> NoFullTx, tx |-> NoFullTx, at |-> 0, updates |-> "none"]

IsMade(s) == made[s] # NotMade

\* tx := NewUnsignedTx(p.Sender, p.Recipient, p.Payload, p.Fee, p.Gas)
MakeTx(s, sender, recipient, payload, fee, gas, now) ==
    /\ ~IsMade(s)
    /\ \E tx \in {NewUnsignedTx(sender, recipient, payload, fee, gas, now)} :
          made' = [made EXCEPT ![s] =
                      [first |-> tx, tx |-> tx, at |-> now, updates |-> "none"]]

\* updated := NewTxUpdate(existing.ID, existing.Sender, existing.Recipient,
\*     existing.Payload, p.Fee, existing.Gas, existing.CreatedAt)
MakeUpdate(s, fee, now) ==
    /\ IsMade(s)
    /\ \E existing \in {made[s].tx} :
          made' = [made EXCEPT ![s] =
                      [@ EXCEPT !.tx = NewTxUpdate(existing.ID, existing.Sender,
                                                   existing.Recipient, existing.Payload,
                                                   fee, existing.Gas, existing.CreatedAt, now),
                                !.at = now,
                                !.updates = IF @ = "none" THEN "one" ELSE "more"]]

InitTx ==
    /\ EmptyMempool
    /\ last = NoCall
    /\ inputs = {}
    /\ NoTasks
    /\ NoHistory
    /\ NoNode
    /\ NoHashes
    /\ made = [s \in Slots |-> NotMade]
    /\ NoRpc
    /\ NoRun

txFrame == <<mempoolVars, last, inputs, taskVars, gone, nodeVars, hashVars, rpcVars, runVars>>

NextTx ==
    \/ \E s \in Slots, sender \in Senders, recipient \in Recipients, payload \in Payloads,
          fee \in FeeValues, gas \in GasValues, now \in TimeValues :
          MakeTx(s, sender, recipient, payload, fee, gas, now) /\ UNCHANGED txFrame
    \/ \E s \in Slots, fee \in FeeValues, now \in TimeValues :
          MakeUpdate(s, fee, now) /\ UNCHANGED txFrame

SpecTx == InitTx /\ [][NextTx]_vars

(* --------------------------------- C22 -------------------------------- *)

\* What the id is made of.
IdInputs(tx) ==
    [sender |-> tx.Sender, recipient |-> tx.Recipient, payload |-> tx.Payload,
     createdAt |-> tx.CreatedAt]

\* C22: the id is a function of sender, recipient, payload and created_at
\* only.  Two transactions made with these equal have equal ids whatever
\* their fee, gas and timestamp; two that differ in created_at alone, by
\* one nanosecond, have different ids; and after any number of updates a
\* transaction has the id and the created_at it was made with, which is the
\* id of its four fields, and the timestamp of the last update.
C22_IdOfImmutableFields ==
    /\ \A s \in Slots : IsMade(s) =>
          /\ made[s].tx.ID = made[s].first.ID
          /\ made[s].tx.CreatedAt = made[s].first.CreatedAt
          /\ made[s].tx.ID = GenerateTxID(made[s].tx.Sender, made[s].tx.Recipient,
                                          made[s].tx.Payload, made[s].tx.CreatedAt)
          /\ made[s].tx.Timestamp = made[s].at
    /\ \A s \in Slots, t \in Slots : IsMade(s) /\ IsMade(t) =>
          /\ IdInputs(made[s].tx) = IdInputs(made[t].tx) => made[s].tx.ID = made[t].tx.ID
          /\ ( /\ [IdInputs(made[s].tx) EXCEPT !.createdAt = 0]
                    = [IdInputs(made[t].tx) EXCEPT !.createdAt = 0]
               /\ made[s].tx.CreatedAt = made[t].tx.CreatedAt + 1 )
             => made[s].tx.ID # made[t].tx.ID

\* Two transactions made a nanosecond apart of the same sender, recipient
\* and payload; one has had its fee changed twice or more and carries a
\* timestamp later than its created_at.
C22_Witness ==
    /\ IsMade("x") /\ IsMade("y")
    /\ [IdInputs(made["x"].tx) EXCEPT !.createdAt = 0]
          = [IdInputs(made["y"].tx) EXCEPT !.createdAt = 0]
    /\ made["y"].tx.CreatedAt = made["x"].tx.CreatedAt + 1
    /\ made["x"].updates = "more"
    /\ made["x"].tx.Fee # made["x"].first.Fee
    /\ made["x"].tx.Timestamp # made["x"].tx.CreatedAt

(* --------------------------------- rpc -------------------------------- *)

\* The node serving POST /rpc, one request after the other, beside the
\* block loop.  A JSON object is the function from its keys to its values.

StatusOK == 200
StatusBadRequest == 400

\* A nil interface value; an empty json.RawMessage.
Nil == [nil |-> TRUE]
IsNil(v) == DOMAIN v = {"nil"}

\* json.Marshal of an rpcResponse{Result: result, Error: error}: both
\* fields carry omitempty.
EncodeResponse(result, error) ==
    [k \in (IF IsNil(result) THEN {} ELSE {"result"})
           \cup (IF error = "" THEN {} ELSE {"error"}) |->
        IF k = "result" THEN result ELSE error]

\* Mutant of writeRPCResult: a result that is itself a response is sent as
\* the envelope.
writeRPCResult_unwraps(status, result) ==
    [status |-> status,
     body |-> IF DOMAIN result \subseteq {"result", "error"} THEN result
              ELSE EncodeResponse(result, "")]

writeRPCResult(status, result) ==
    [status |-> status, body |-> EncodeResponse(result, "")]

writeRPCError(status, msg) ==
    [status |-> status, body |-> EncodeResponse(Nil, msg)]

\* What a handler leaves: the mempool, the failure it met ("" for none)
\* and what it wrote.
Handled(m, fault, written) ==
    [m |-> m, fault |-> fault, status |-> written.status, body |-> written.body]

\* The empty string as a TxID.
EmptyId == 0

\* Mutant of rpcTxAdd: sender and recipient are not looked at.
rpcTxAdd_noValidation(m, p, now) ==
    IF ~p.wellFormed
    THEN Handled(m, "invalid params", writeRPCError(StatusBadRequest, "invalid params for tx.add"))
    ELSE \* tx := NewUnsignedTx(...); n.mempool.Add(tx)
         LET tx == NewUnsignedTx(p.Sender, p.Recipient, p.Payload, p.Fee, p.Gas, now)
             r == Add(WithTx(m, tx), tx)
         IN  IF r.err # ErrNil
             THEN Handled(r.m, r.err, writeRPCError(StatusBadRequest, r.err))
             ELSE Handled(r.m, "", writeRPCResult(StatusOK, [txID |-> tx.ID]))

\* Node.rpcTxAdd on the mempool m; now is the value of time.Now().
rpcTxAdd(m, p, now) ==
    IF ~p.wellFormed
    THEN Handled(m, "invalid params", writeRPCError(StatusBadRequest, "invalid params for tx.add"))
    ELSE IF p.Sender = << >> \/ p.Recipient = << >>
    THEN Handled(m, "validation",
                 writeRPCError(StatusBadRequest, "sender and recipient are required"))
    ELSE LET tx == NewUnsignedTx(p.Sender, p.Recipient, p.Payload, p.Fee, p.Gas, now)
             r == Add(WithTx(m, tx), tx)
         IN  IF r.err # ErrNil
             THEN Handled(r.m, r.err, writeRPCError(StatusBadRequest, r.err))
             ELSE Handled(r.m, "", writeRPCResult(StatusOK, [txID |-> tx.ID]))

\* Node.findTxByID: the pointers of List with the id (at most one).
findTxByID(m, id) == {ptr \in List(m) : Deref(m, ptr).ID = id}

\* Node.rpcTxUpdate, its List and its Update taken as one step.
rpcTxUpdate(m, p, now) ==
    IF ~p.wellFormed
    THEN Handled(m, "invalid params", writeRPCError(StatusBadRequest, "invalid params for tx.update"))
    ELSE IF p.ID = EmptyId
    THEN Handled(m, "validation", writeRPCError(StatusBadRequest, "id is required"))
    ELSE IF findTxByID(m, p.ID) = {}
    THEN Handled(m, ErrTxNotFound,
                 writeRPCResult(StatusOK, EncodeResponse(Nil, ErrTxNotFound)))
    ELSE LET existing == Deref(m, CHOOSE ptr \in findTxByID(m, p.ID) : TRUE)
             updated == NewTxUpdate(existing.ID, existing.Sender, existing.Recipient,
                                    existing.Payload, p.Fee, existing.Gas,
                                    existing.CreatedAt, now)
             r == Update(WithTx(m, updated), updated)
         IN  IF r.err # ErrNil
             THEN Handled(r.m, r.err, writeRPCError(StatusBadRequest, r.err))
             ELSE Handled(r.m, "", writeRPCResult(StatusOK, [ok |-> TRUE]))

\* Node.rpcTxRemove
rpcTxRemove(m, p) ==
    IF ~p.wellFormed
    THEN Handled(m, "invalid params", writeRPCError(StatusBadRequest, "invalid params for tx.remove"))
    ELSE IF p.ID = EmptyId
    THEN Handled(m, "validation", writeRPCError(StatusBadRequest, "id is required"))
    ELSE LET r == Remove(m, p.ID)
         IN  IF r.err = ErrTxNotFound
             THEN Handled(r.m, r.err, writeRPCResult(StatusOK, EncodeResponse(Nil, r.err)))
             ELSE IF r.err # ErrNil
             THEN Handled(r.m, r.err, writeRPCError(StatusBadRequest, r.err))
             ELSE Handled(r.m, "", writeRPCResult(StatusOK, [ok |-> TRUE]))

\* The less function of rpcTxList.
listLess(ti, tj) ==
    IF ti.Fee # tj.Fee THEN ti.Fee > tj.Fee
    ELSE IF ti.Timestamp # tj.Timestamp THEN ti.Timestamp < tj.Timestamp
    ELSE ti.ID < tj.ID

\* Mutant of sortSlice: the transactions are put in the order of their ids.
RECURSIVE sortSlice_byId(_)
sortSlice_byId(txs) ==
    IF txs = {} THEN << >>
    ELSE LET first == CHOOSE t \in txs : \A u \in txs : t.ID <= u.ID
         IN  <<first>> \o sortSlice_byId(txs \ {first})

\* sort.Slice(txs, less) on the transactions of List, no two of which the
\* less function leaves unordered.
RECURSIVE sortSlice(_)
sortSlice(txs) ==
    IF txs = {} THEN << >>
    ELSE LET first == CHOOSE t \in txs : \A u \in txs \ {t} : listLess(t, u)
         IN  <<first>> \o sortSlice(txs \ {first})

\* Node.rpcTxList
rpcTxList(m) ==
    Handled(m, "", writeRPCResult(StatusOK, [transactions |-> sortSlice(ListTxs(m))]))

\* hex.EncodeToString of a digest.
Hex(digest) == <<"hex">> \o digest

\* makeBlockDTO
makeBlockDTO(b, os) ==
    [height |-> b.Header.Height,
     prevHash |-> Hex(b.Header.PrevHash),
     timestamp |-> b.Header.Timestamp,
     txCount |-> b.Header.TxCount,
     gasUsed |-> b.Header.GasUsed,
     hash |-> Hex(Hash(b, os)),
     transactions |-> [k \in 1..Len(b.Transactions) |-> os[b.Transactions[k]]]]

\* Node.rpcBlockList on the chain bs
rpcBlockList(m, bs) ==
    Handled(m, "", writeRPCResult(StatusOK,
        [blocks |-> [i \in 1..Len(bs) |-> makeBlockDTO(bs[i], m.objs)]]))

\* Mutant of rpcBlockGet: the height is taken as a position from one.
rpcBlockGet_fromOne(m, bs, p) ==
    IF ~p.wellFormed
    THEN Handled(m, "invalid params", writeRPCError(StatusBadRequest, "invalid params for block.get"))
    ELSE IF p.Height \notin 1..Len(bs)
    THEN Handled(m, "block not found",
                 writeRPCResult(StatusOK, EncodeResponse(Nil, "block not found")))
    ELSE Handled(m, "", writeRPCResult(StatusOK, [block |-> makeBlockDTO(bs[p.Height], m.objs)]))

\* Node.rpcBlockGet: the first block of the chain with the height.
rpcBlockGet(m, bs, p) ==
    IF ~p.wellFormed
    THEN Handled(m, "invalid params", writeRPCError(StatusBadRequest, "invalid params for block.get"))
    ELSE LET at == {i \in 1..Len(bs) : bs[i].Header.Height = p.Height}
         IN  IF at = {}
             THEN Handled(m, "block not found",
                          writeRPCResult(StatusOK, EncodeResponse(Nil, "block not found")))
             ELSE LET found == bs[CHOOSE i \in at : \A j \in at : i <= j]
                  IN  Handled(m, "", writeRPCResult(StatusOK, [block |-> makeBlockDTO(found, m.objs)]))

\* Node.handleRPC on a POST with a JSON body
handleRPC(m, bs, req, now) ==
    CASE req.method = "tx.add" -> rpcTxAdd(m, req.params, now)
      [] req.method = "tx.update" -> rpcTxUpdate(m, req.params, now)
      [] req.method = "tx.remove" -> rpcTxRemove(m, req.params)
      [] req.method = "tx.list" -> rpcTxList(m)
      [] req.method = "block.list" -> rpcBlockList(m, bs)
      [] req.method = "block.get" -> rpcBlockGet(m, bs, req.params)
      [] OTHER -> Handled(m, "unknown method",
                          writeRPCError(StatusBadRequest, "unknown method"))

(* --------------------------------- cmd -------------------------------- *)

\* The commands of the CLI; each sends one request and exits.

ExitSuccess == 0
ExitFailure == 1

\* json.Decode of the response body into cmd.rpcResponse.
DecodeResponse(body) ==
    [Result |-> IF "result" \in DOMAIN body THEN body["result"] ELSE Nil,
     Error |-> IF "error" \in DOMAIN body THEN body["error"] ELSE ""]

\* callRPC on the body of the response (the status is not read): the error
\* it returns ("" for nil) and the JSON that out is filled from.
callRPC(body) ==
    LET rpcResp == DecodeResponse(body)
    IN  IF rpcResp.Error # "" THEN [err |-> "RPC error", out |-> Nil]
        ELSE IF IsNil(rpcResp.Result) THEN [err |-> "failed to decode RPC result", out |-> Nil]
        ELSE [err |-> "", out |-> rpcResp.Result]

\* json.Unmarshal into a struct with one field: the field named key, or
\* the zero value when the JSON has no such key.
Field(out, key, zero) == IF key \in DOMAIN out THEN out[key] ELSE zero

\* What a command prints and the status it exits with.
Printed(text, value, exit) == [text |-> text, value |-> value, exit |-> exit]

\* TxArgs.add, update, remove, list and BlockArgs.list, get, after the
\* flags are parsed: the command of the method, given the response body.
Command(method, body) ==
    LET r == callRPC(body)
    IN  IF r.err # "" THEN Printed("error:", r.err, ExitFailure)
        ELSE CASE method = "tx.add" ->
                    Printed("tx added:", Field(r.out, "txID", EmptyId), ExitSuccess)
               [] method = "tx.update" -> Printed("tx updated", Nil, ExitSuccess)
               [] method = "tx.remove" -> Printed("tx removed", Nil, ExitSuccess)
               [] method = "tx.list" ->
                    Printed("", Field(r.out, "transactions", Nil), ExitSuccess)
               [] method = "block.list" ->
                    Printed("", Field(r.out, "blocks", Nil), ExitSuccess)
               [] method = "block.get" ->
                    Printed("", Field(r.out, "block", Nil), ExitSuccess)

(* ------------------------------ rpc node ------------------------------ *)

\* Most blocks a run with requests of every kind produces.
RpcBlocks == 1

\* Such a run is followed until the loop has built RpcBlocks blocks.
RpcRunning == Built < RpcBlocks

\* The node started with one configuration, a gas limit that some
\* transactions exceed.
RpcConfigs == {c \in NodeConfigs : c.GasLimit > 0 /\ c.MinFee = 0}

\* The clock reading of a tx.add: the first one.
AddTimes == {t \in TimeValues : \A u \in TimeValues : t <= u}

\* What the callers send.  A request that does not parse has no fields to
\* speak of; a payload makes a transaction dear in gas.
PayloadGas(payload) == IF payload = << >> THEN 1 ELSE MaxUint

NoParams == [wellFormed |-> TRUE]

AddParams ==
    {[wellFormed |-> FALSE, Sender |-> << >>, Recipient |-> << >>, Payload |-> << >>,
      Fee |-> 0, Gas |-> 0]}
    \cup {[wellFormed |-> TRUE, Sender |-> sr[1], Recipient |-> sr[2], Payload |-> << >>,
           Fee |-> 1, Gas |-> 1] : sr \in {<<<< >>, <<"c">>>>, <<<<"a">>, << >>>>}}
    \cup {[wellFormed |-> TRUE, Sender |-> <<"a">>, Recipient |-> <<"c">>, Payload |-> p,
           Fee |-> fee, Gas |-> PayloadGas(p)] : p \in Payloads, fee \in FeeValues}

\* The ids of the transactions tx.add can make.
RpcIds ==
    {NewUnsignedTx(p.Sender, p.Recipient, p.Payload, p.Fee, p.Gas, now).ID :
        p \in {q \in AddParams : q.wellFormed}, now \in AddTimes}

UpdateParams ==
    {[wellFormed |-> FALSE, ID |-> EmptyId, Fee |-> 0]}
    \cup [wellFormed : {TRUE}, ID : {EmptyId}, Fee : {1}]
    \cup [wellFormed : {TRUE}, ID : RpcIds, Fee : FeeValues]

RemoveParams ==
    {[wellFormed |-> FALSE, ID |-> EmptyId]}
    \cup [wellFormed : {TRUE}, ID : {EmptyId} \cup RpcIds]

BlockGetParams ==
    {[wellFormed |-> FALSE, Height |-> 0]}
    \cup [wellFormed : {TRUE}, Height : 0..RpcBlocks]

Request(method, params) == [method |-> method, params |-> params]

NoExchange ==
    [req |-> Request("", NoParams), fault |-> "", status |-> 0,
     body |-> EncodeResponse(Nil, "")]

Serving == rpc # NoExchange

\* handleRPC serves the request and writes the response.
Serve(req, now) ==
    /\ ~Serving
    /\ \E r \in {handleRPC(mp, blocks, req, now)} :
          /\ Install(r.m, NodeHeld(blocks, loop))
          /\ rpc' = [req |-> req, fault |-> r.fault, status |-> r.status, body |-> r.body]
    /\ UNCHANGED <<cfg, blocks, loop, resub>>

\* The command has printed and exited.
Exit ==
    /\ Serving
    /\ rpc' = NoExchange
    /\ UNCHANGED <<mempoolVars, nodeVars>>

\* A step of the block loop.
LoopStep ==
    /\ ~Serving
    /\ \/ \E now \in TimeValues : RpcRunning /\ Tick(MkTime(now, UTC))
       \/ StoreBlock
       \/ MoveTip
    /\ UNCHANGED rpc

InitRpc ==
    /\ EmptyMempool
    /\ last = NoCall
    /\ inputs = {}
    /\ NoTasks
    /\ NoHistory
    /\ NoHashes
    /\ NoMade
    /\ NoRun
    /\ cfg \in RpcConfigs
    /\ blocks = << >>
    /\ loop = LoopStart
    /\ resub = {}
    /\ rpc = NoExchange

rpcFrame == <<last, inputs, taskVars, gone, hashVars, txVars, runVars>>

NextRpc ==
    \/ \E p \in AddParams, now \in AddTimes :
          RpcRunning /\ Serve(Request("tx.add", p), now) /\ UNCHANGED rpcFrame
    \/ \E p \in UpdateParams, now \in UpdateTimes :
          Serve(Request("tx.update", p), now) /\ UNCHANGED rpcFrame
    \/ \E p \in RemoveParams, now \in UpdateTimes :
          Serve(Request("tx.remove", p), now) /\ UNCHANGED rpcFrame
    \/ \E now \in UpdateTimes :
          Serve(Request("tx.list", NoParams), now) /\ UNCHANGED rpcFrame
    \/ \E now \in UpdateTimes :
          Serve(Request("block.list", NoParams), now) /\ UNCHANGED rpcFrame
    \/ \E p \in BlockGetParams, now \in UpdateTimes :
          Serve(Request("block.get", p), now) /\ UNCHANGED rpcFrame
    \/ \E now \in UpdateTimes :
          Serve(Request("tx.clear", NoParams), now) /\ UNCHANGED rpcFrame
    \/ Exit /\ UNCHANGED rpcFrame
    \/ LoopStep /\ UNCHANGED rpcFrame

SpecRpc == InitRpc /\ [][NextRpc]_vars

\* The handler has just answered: the step that serves a request.
Answered == ~Serving /\ Serving'

\* The failures the handlers meet when what is asked for is not there.
NotFound == {ErrTxNotFound, "block not found"}

(* --------------------------------- C23 -------------------------------- *)

\* C23 as claimed: a tx.update or tx.remove of an id not in the mempool and
\* a block.get of a height not in the chain are answered with status 200
\* and an envelope whose error is the failure and which has no result, and
\* leave the mempool and the chain as they were.
C23_NotFoundEnvelope ==
    [][Answered /\ rpc'.fault \in NotFound =>
          /\ rpc'.status = StatusOK
          /\ "error" \in DOMAIN rpc'.body
          /\ rpc'.body["error"] = rpc'.fault
          /\ "result" \notin DOMAIN rpc'.body
          /\ UNCHANGED <<mempoolVars, blocks>>]_vars

(* --------------------------------- C24 -------------------------------- *)

\* The failures of the domain: not found, duplicate, validation.
DomainFailures == NotFound \cup {ErrTxExists, "validation"}

\* C24 as claimed: when the node has answered the request of a command
\* with a failure of the domain, the command prints an error line and
\* exits with a status other than zero.
C24_FailedCommandFails ==
    Serving /\ rpc.fault \in DomainFailures =>
        \E printed \in {Command(rpc.req.method, rpc.body)} :
            /\ printed.text = "error:"
            /\ printed.exit # ExitSuccess

(* --------------------------------- C25 -------------------------------- *)

\* The transaction of the mempool m with the id (there is one).
Stored_tx(m, id) == CHOOSE tx \in ListTxs(m) : tx.ID = id

\* The handler has just answered a request of the method without failure.
Succeeded(method) == Answered /\ rpc'.req.method = method /\ rpc'.fault = ""

Failed_with(status) ==
    /\ rpc'.status = status
    /\ "error" \in DOMAIN rpc'.body
    /\ "result" \notin DOMAIN rpc'.body

\* C26: tx.add answers a request with an empty sender or recipient with
\* 400 and an error, and a request whose derived id is in the mempool with
\* 400 and 'mempool: tx already exists', and leaves the mempool as it was
\* in both cases; it answers a valid request with 200 and the new txID,
\* and the mempool then holds what it held plus that transaction, with the
\* fee and the gas of the request.
C26_AddRejectsOrAdds ==
    [][Answered /\ rpc'.req.method = "tx.add" /\ rpc'.req.params.wellFormed =>
          \E p \in {rpc'.req.params}, now \in AddTimes :
          \E id \in {GenerateTxID(p.Sender, p.Recipient, p.Payload, now)} :
              IF p.Sender = << >> \/ p.Recipient = << >>
              THEN /\ Failed_with(StatusBadRequest)
                   /\ rpc'.body["error"] = "sender and recipient are required"
                   /\ UNCHANGED <<mempoolVars, blocks>>
              ELSE IF id \in Ids(ListTxs(mp))
              THEN /\ Failed_with(StatusBadRequest)
                   /\ rpc'.body["error"] = "mempool: tx already exists"
                   /\ UNCHANGED <<mempoolVars, blocks>>
              ELSE /\ rpc'.status = StatusOK
                   /\ rpc'.body = [result |-> [txID |-> id]]
                   /\ \E tx \in ListTxs(mp)' :
                         /\ tx.ID = id
                         /\ tx.Fee = p.Fee
                         /\ tx.Gas = p.Gas
                         /\ ListTxs(mp)' = ListTxs(mp) \cup {tx}
                   /\ UNCHANGED blocks]_vars

\* tx.add has refused a request whose id the mempool holds, another
\* transaction being in the mempool as well.
C26_Witness ==
    /\ Serving /\ rpc.req.method = "tx.add"
    /\ rpc.fault = ErrTxExists /\ rpc.status = StatusBadRequest
    /\ Cardinality(ListTxs(mp)) = 2

\* tx.add has refused a request without a sender.
C26_WitnessInvalid ==
    /\ Serving /\ rpc.req.method = "tx.add"
    /\ rpc.req.params.wellFormed /\ rpc.req.params.Sender = << >>
    /\ rpc.status = StatusBadRequest
    /\ ListTxs(mp) # {}

(* --------------------------------- C27 -------------------------------- *)

\* The sequence s is the sequence t with some of its elements left out.
IsSubsequence(s, t) ==
    \E at \in [1..Len(s) -> 1..Len(t)] :
        /\ \A i, j \in 1..Len(s) : i < j => at[i] < at[j]
        /\ \A i \in 1..Len(s) : t[at[i]] = s[i]

\* The transactions of the tx.list response being served.
Listed == rpc.body["result"].transactions

\* C27: tx.list answers with all the transactions of the mempool, each
\* once, in the priority order (fee descending, then timestamp ascending,
\* then id ascending); what SelectTransactions would return next, under
\* any constraints, is a subsequence of that list; and tx.list leaves the
\* mempool as it was.
C27_ListInPriorityOrder ==
    [][Answered /\ rpc'.req.method = "tx.list" =>
          /\ rpc'.status = StatusOK
          /\ UNCHANGED <<mempoolVars, blocks>>
          /\ Len(Listed') = Cardinality(ListTxs(mp))
          /\ Range(Listed') = ListTxs(mp)
          /\ \A i, j \in 1..Len(Listed') : i < j => Before(Listed'[i], Listed'[j])
          /\ \A c \in Constraints : IsSubsequence(NextSelect(c), Listed')]_vars

\* tx.list has listed two transactions, not in the order of their ids, and
\* some SelectTransactions would leave the first out and return the other.
C27_Witness ==
    /\ Serving /\ rpc.req.method = "tx.list"
    /\ Len(Listed) = 2
    /\ \E i, j \in 1..Len(Listed) : i < j /\ Listed[i].ID > Listed[j].ID
    /\ \E c \in Constraints :
          /\ NextSelect(c) # << >>
          /\ NextSelect(c)[1] # Listed[1]

(* ---------------------------- chain reads ----------------------------- *)

\* A node whose chain grows to MaxBlocks blocks while callers add
\* transactions and read the chain.
ChainGetParams ==
    {[wellFormed |-> FALSE, Height |-> 0]}
    \cup [wellFormed : {TRUE}, Height : 0..MaxBlocks]

\* A step of the block loop, between two exchanges.
ChainLoopStep ==
    /\ ~Serving
    /\ \/ \E now \in TimeValues : Tick(MkTime(now, UTC))
       \/ StoreBlock
       \/ MoveTip
    /\ UNCHANGED rpc

InitChain == InitRpc

NextChain ==
    \/ \E p \in AddParams, now \in AddTimes :
          Running /\ Serve(Request("tx.add", p), now) /\ UNCHANGED rpcFrame
    \/ \E now \in UpdateTimes :
          Serve(Request("block.list", NoParams), now) /\ UNCHANGED rpcFrame
    \/ \E p \in ChainGetParams, now \in UpdateTimes :
          Serve(Request("block.get", p), now) /\ UNCHANGED rpcFrame
    \/ Exit /\ UNCHANGED rpcFrame
    \/ ChainLoopStep /\ UNCHANGED rpcFrame

SpecChain == InitChain /\ [][NextChain]_vars

(* --------------------------------- C28 -------------------------------- *)

\* What a read returns for the block at position i of the chain: its
\* header, its hash and its transactions.
Complete(dto, i) ==
    /\ dto.height = blocks[i].Header.Height
    /\ dto.prevHash = Hex(blocks[i].Header.PrevHash)
    /\ dto.timestamp = blocks[i].Header.Timestamp
    /\ dto.txCount = blocks[i].Header.TxCount
    /\ dto.gasUsed = blocks[i].Header.GasUsed
    /\ dto.hash = Hex(Hash(blocks[i], objs))
    /\ dto.transactions = Read(mp, blocks[i].Transactions)
    /\ dto.transactions # << >>

\* C28: block.list answers with the blocks appended so far, each complete,
\* in chain order; block.get(h) answers with the complete block of height
\* h when h is less than the number of blocks appended, and fails with
\* 'block not found' otherwise; neither changes the chain, the loop or the
\* mempool.
C28_ChainReads ==
    [][Answered /\ rpc'.req.params.wellFormed =>
          /\ rpc'.req.method = "block.list" =>
                /\ rpc'.status = StatusOK /\ rpc'.fault = ""
                /\ UNCHANGED <<mempoolVars, nodeVars>>
                /\ \E listed \in {rpc'.body["result"].blocks} :
                      /\ Len(listed) = Len(blocks)
                      /\ \A i \in 1..Len(blocks) :
                            Complete(listed[i], i) /\ listed[i].height = i - 1
          /\ rpc'.req.method = "block.get" =>
                /\ rpc'.status = StatusOK
                /\ UNCHANGED <<mempoolVars, nodeVars>>
                /\ \E h \in {rpc'.req.params.Height} :
                      IF h < Len(blocks)
                      THEN /\ rpc'.fault = ""
                           /\ rpc'.body["result"].block.height = h
                           /\ Complete(rpc'.body["result"].block, h + 1)
                      ELSE rpc'.fault = "block not found"]_vars

\* block.list has answered with the two blocks of the chain.
C28_Witness ==
    /\ Serving /\ rpc.req.method = "block.list"
    /\ Len(rpc.body["result"].blocks) = 2
    /\ Len(blocks) = 2

\* block.get has answered with the second of two blocks.
C28_WitnessGet ==
    /\ Serving /\ rpc.req.method = "block.get" /\ rpc.fault = ""
    /\ rpc.req.params.Height = 1
    /\ Len(blocks) = 2

(* ------------------------------ shutdown ------------------------------ *)

\* Node.run: the HTTP server goroutine, the block loop goroutine and the
\* select that waits for the context or for the first error.  run holds
\*   ctx      "live" or "cancelled": the parent context
\*   listen   "serving", or "failed" once ListenAndServe has returned an
\*            error other than ErrServerClosed
\*   shutdown whether server.Shutdown has been called
\*   errCh    the buffered channel of the two goroutines' results
\*   pc       "select" while run waits, "returned" afterwards
\*   err      what run returned
NilError == "nil"
HttpServerError == "http server error"

\* errCh := make(chan error, 2)
ErrChCap == 2

RunStart == [ctx |-> "live", listen |-> "serving", shutdown |-> FALSE,
             errCh |-> << >>, pc |-> "select", err |-> NilError]

Cancelled == run.ctx = "cancelled"

\* Mutant of runSelect: run returns without calling server.Shutdown.
runSelect_noShutdown(r) ==
    {[r EXCEPT !.pc = "returned", !.err = NilError] :
        x \in IF r.ctx = "cancelled" THEN {1} ELSE {}}
    \cup {[r EXCEPT !.pc = "returned", !.err = Head(r.errCh),
                    !.errCh = Tail(r.errCh)] :
             x \in IF r.errCh # << >> THEN {1} ELSE {}}

\* The select of run: what it can do when it is scheduled.  With both
\* cases ready either is taken.
runSelect(r) ==
    {[r EXCEPT !.shutdown = TRUE, !.pc = "returned", !.err = NilError] :
        x \in IF r.ctx = "cancelled" THEN {1} ELSE {}}
    \cup {[r EXCEPT !.shutdown = TRUE, !.pc = "returned", !.err = Head(r.errCh),
                    !.errCh = Tail(r.errCh)] :
             x \in IF r.errCh # << >> THEN {1} ELSE {}}

stopFrame == <<last, inputs, taskVars, gone, hashVars, txVars, rpcVars>>

\* The parent context is cancelled while run waits.
Cancel ==
    /\ run.pc = "select"
    /\ run.ctx = "live"
    /\ run' = [run EXCEPT !.ctx = "cancelled"]
    /\ UNCHANGED <<mempoolVars, nodeVars, stopFrame>>

\* server.ListenAndServe returns an error: errCh <- "http server error".
ServerFails ==
    /\ run.listen = "serving"
    /\ ~run.shutdown
    /\ Len(run.errCh) < ErrChCap
    /\ run' = [run EXCEPT !.listen = "failed",
                          !.errCh = Append(@, HttpServerError)]
    /\ UNCHANGED <<mempoolVars, nodeVars, stopFrame>>

\* run's select takes a case.
RunSelect ==
    /\ run.pc = "select"
    /\ run' \in runSelect(run)
    /\ UNCHANGED <<mempoolVars, nodeVars, stopFrame>>

\* runBlockLoop's select takes case <-ctx.Done(): return nil, which the
\* goroutine sends to errCh (two senders, one value each: there is room).
LoopExit ==
    /\ loop.pc = "wait"
    /\ Cancelled
    /\ loop' = [loop EXCEPT !.pc = "exited"]
    /\ run' = [run EXCEPT !.errCh = Append(@, NilError)]
    /\ UNCHANGED <<mempoolVars, cfg, blocks, resub, stopFrame>>

\* runBlockLoop's select takes case <-ticker.C.
StopTick ==
    /\ \E now \in TimeValues : Tick(MkTime(now, UTC))
    /\ UNCHANGED <<run, stopFrame>>

StopStoreBlock == StoreBlock /\ UNCHANGED <<run, stopFrame>>

StopMoveTip == MoveTip /\ UNCHANGED <<run, stopFrame>>

\* tx.add on the server while it serves.
StopTxAdd ==
    /\ run.listen = "serving"
    /\ ~run.shutdown
    /\ \E tx \in inputs : RpcTxAdd(tx)
    /\ UNCHANGED <<run, stopFrame>>

InitStop ==
    /\ EmptyMempool
    /\ last = NoCall
    /\ inputs = NodeTxs
    /\ NoTasks
    /\ NoHistory
    /\ NoHashes
    /\ NoMade
    /\ NoRpc
    /\ cfg \in RpcConfigs
    /\ blocks = << >>
    /\ loop = LoopStart
    /\ resub = {}
    /\ run = RunStart

NextStop ==
    \/ Cancel
    \/ ServerFails
    \/ RunSelect
    \/ LoopExit
    \/ StopTick
    \/ StopStoreBlock
    \/ StopMoveTip
    \/ StopTxAdd

SpecStop == InitStop /\ [][NextStop]_vars

\* The goroutines of run and of the loop are scheduled when they can take
\* a step, and a select whose case <-ctx.Done() is ready again and again
\* takes it in the end (the choice among ready cases is random).
FairStop ==
    /\ SpecStop
    /\ WF_vars(RunSelect)
    /\ WF_vars(StopStoreBlock)
    /\ WF_vars(StopMoveTip)
    /\ SF_vars(LoopExit)

(* --------------------------------- C29 -------------------------------- *)

Returned_run == run.pc = "returned"

\* C29 as claimed: once the context is cancelled run calls server.Shutdown
\* and returns nil, and the loop exits; once the loop has exited no block
\* is appended.
C29_Shutdown ==
    /\ Cancelled ~> (Returned_run /\ run.shutdown /\ run.err = NilError)
    /\ Cancelled ~> (loop.pc = "exited")
    /\ [][loop.pc = "exited" => blocks' = blocks]_vars

\* C29: once the context is cancelled run calls server.Shutdown and
\* returns, with nil unless the HTTP server has failed, in which case it
\* returns nil or the server's error; the loop exits; and once the loop has
\* exited no block is appended.
C29_ShutdownUnlessServerFailed ==
    /\ Cancelled ~> (/\ Returned_run /\ run.shutdown
                     /\ run.err # NilError =>
                           run.err = HttpServerError /\ run.listen = "failed")
    /\ Cancelled ~> (loop.pc = "exited")
    /\ [][loop.pc = "exited" => blocks' = blocks]_vars

\* The context was cancelled with a block in the chain and a transaction in
\* the mempool; run has called Shutdown and returned nil, the server never
\* failed, and the loop has exited.
C29_Witness ==
    /\ Cancelled /\ Returned_run /\ run.shutdown /\ run.err = NilError
    /\ run.listen = "serving"
    /\ loop.pc = "exited"
    /\ blocks # << >>
    /\ ListTxs(mp) # {}

(* --------------------------------- C30 -------------------------------- *)

\* What block.list returns on the chain bs with the Tx objects os.
BlockList(bs, os) == [i \in 1..Len(bs) |-> makeBlockDTO(bs[i], os)]

\* C30: no step of the node, be it a tick, a tx.add, a tx.update or a
\* tx.remove, changes a block of the chain: the block stays at its position
\* with its header and its transaction list, the transactions it points to
\* keep their field values, its hash is the same and is the PrevHash of the
\* block after it, and what block.list returned before the step is a
\* prefix of what it returns after.
C30_BlocksImmutable ==
    [][/\ Len(blocks') >= Len(blocks)
       /\ \A i \in 1..Len(blocks) :
             /\ blocks'[i] = blocks[i]
             /\ \A k \in 1..Len(blocks[i].Transactions) :
                   /\ blocks[i].Transactions[k] \in DOMAIN objs'
                   /\ objs'[blocks[i].Transactions[k]] = objs[blocks[i].Transactions[k]]
             /\ Hash(blocks'[i], objs') = Hash(blocks[i], objs)
             /\ i < Len(blocks') =>
                   blocks'[i + 1].Header.PrevHash = Hash(blocks[i], objs)
       /\ SubSeq(BlockList(blocks', objs'), 1, Len(blocks)) = BlockList(blocks, objs)
      ]_vars

\* The chain has two blocks, and the mempool holds a transaction with the
\* id of one in the first block and another fee: it was added again and
\* then updated.
C30_Witness ==
    /\ Len(blocks) = 2
    /\ \E tx \in ListTxs(mp), k \in 1..Len(blocks[1].Transactions) :
          /\ tx.ID = objs[blocks[1].Transactions[k]].ID
          /\ tx.Fee # objs[blocks[1].Transactions[k]].Fee
          /\ tx.Timestamp # objs[blocks[1].Transactions[k]].Timestamp

(* --------------------------------- C31 -------------------------------- *)

\* The transactions of S in the priority order.
RECURSIVE InPriorityOrder(_)
InPriorityOrder(S) ==
    IF S = {} THEN << >>
    ELSE LET first == CHOOSE t \in S : \A u \in S \ {t} : Before(t, u)
         IN  <<first>> \o InPriorityOrder(S \ {first})

\* The greedy selection of the specified algorithm over the transactions
\* still to scan; it adds gas as numbers are added when wide, and modulo
\* 2^UintBits otherwise.
RECURSIVE Greedy(_, _, _, _)
Greedy(scan, c, st, wide) ==
    IF scan = << >> \/ Len(st.txs) >= c.MaxTx THEN [st EXCEPT !.unreached = scan]
    ELSE LET tx == Head(scan)
             total == IF wide THEN st.gasUsed + tx.Gas
                      ELSE (st.gasUsed + tx.Gas) % UintMod
         IN  IF tx.Fee < c.MinFee
             THEN Greedy(Tail(scan), c, [st EXCEPT !.purged = @ \cup {tx}], wide)
             ELSE IF c.GasLimit > 0 /\ total > c.GasLimit
             THEN Greedy(Tail(scan), c, [st EXCEPT !.skipped = @ \cup {tx}], wide)
             ELSE Greedy(Tail(scan), c,
                         [st EXCEPT !.txs = Append(@, tx), !.gasUsed = total], wide)

\* The reference on the transactions S under the constraints c: what is
\* returned and what remains.
Reference(S, c, wide) ==
    LET start == [txs |-> << >>, gasUsed |-> 0, purged |-> {}, skipped |-> {},
                  unreached |-> << >>]
        end == IF c.MaxTx <= 0 \/ S = {} THEN [start EXCEPT !.unreached = InPriorityOrder(S)]
               ELSE Greedy(InPriorityOrder(S), c, start, wide)
    IN  [txs |-> end.txs, gasUsed |-> end.gasUsed,
         remaining |-> end.skipped \cup Elems(end.unreached),
         unreached |-> Elems(end.unreached)]

\* The call that has returned did what the reference does.
AsReference(wide) ==
    \E ref \in {Reference(ListTxs(last.before), last.c, wide)} :
        /\ last.txs = ref.txs
        /\ last.gasUsed = ref.gasUsed
        /\ ListTxs(mp) = ref.remaining
        /\ ref.unreached \subseteq ListTxs(mp)
        /\ ref.unreached \cap (Elems(last.purged) \cup Elems(last.kept)) = {}

\* C31 as claimed: the list and the GasUsed that SelectTransactions returns
\* and the transactions it leaves in the mempool are those of the greedy
\* selection of the specified algorithm, which adds gas as numbers are
\* added, and the transactions the scan did not reach are left alone.
C31_GreedySelection == Returned("Select") => AsReference(TRUE)

\* What does hold of every call: the same with the reference counting gas
\* modulo 2^UintBits, as the code does.
C31_GreedyModuloWrap == Returned("Select") => AsReference(FALSE)

(* --------------------------------- C32 -------------------------------- *)

\* The hash of the last block of the chain, all zero for the empty chain.
TipHash == IF blocks = << >> THEN ZeroHash ELSE Hash(blocks[Len(blocks)], objs)

\* The loop is at its select, between two ticks.
AtTickBoundary == loop.pc = "wait"

\* C32: between two ticks the loop's height is the number of blocks of the
\* chain and its prevHash is the hash of the last block (all zero for the
\* empty chain); a step that leaves the loop between ticks, a tick with an
\* empty build among them, leaves height, prevHash and the chain as they
\* are; a tick that builds a block appends that block, and then sets
\* prevHash to its hash and counts the height up by one.
C32_CursorFollowsChain ==
    /\ [](AtTickBoundary => loop.height = Len(blocks) /\ loop.prevHash = TipHash)
    /\ [][/\ AtTickBoundary /\ AtTickBoundary' =>
                /\ loop'.height = loop.height
                /\ loop'.prevHash = loop.prevHash
                /\ blocks' = blocks
          /\ AtTickBoundary /\ loop'.pc = "built" =>
                /\ blocks' = blocks
                /\ loop'.height = loop.height /\ loop'.prevHash = loop.prevHash
                /\ loop'.block.Header.Height = loop.height
                /\ loop'.block.Header.PrevHash = loop.prevHash
          /\ loop.pc = "built" /\ loop'.pc # "built" =>
                /\ loop'.pc = "stored"
                /\ blocks' = Append(blocks, loop.block)
                /\ loop'.height = loop.height /\ loop'.prevHash = loop.prevHash
          /\ loop.pc = "stored" /\ loop'.pc # "stored" =>
                /\ AtTickBoundary'
                /\ blocks' = blocks
                /\ loop'.height = loop.height + 1
                /\ loop'.prevHash = Hash(blocks[Len(blocks)], objs)
         ]_vars

\* The loop is between ticks with a block in the chain, and the last tick
\* built nothing though the mempool holds a transaction.
C32_Witness ==
    /\ AtTickBoundary /\ loop.missed
    /\ Len(blocks) = 1 /\ loop.height = 1
    /\ ListTxs(mp) # {}

(* ------------------------- tx.update, step by step -------------------- *)

\* rpcTxUpdate as the handler runs it: findTxByID (List, under the read
\* lock, released on return) and then Update (under the write lock), with
\* the block loop and other handlers free to run in between.  While the
\* handler is between the two, rpc holds its request and its local
\* existing.

\* What callers ask of tx.update here: an id and a fee.
RaceUpdateParams == [wellFormed : {TRUE}, ID : RpcIds, Fee : FeeValues]

\* What callers ask of tx.add here.
RaceAddParams == {p \in AddParams : p.wellFormed /\ p.Sender # << >> /\ p.Recipient # << >>}

InFlight == "existing" \in DOMAIN rpc

Found(req, existing) == [req |-> req, existing |-> existing]

\* existing := n.findTxByID(id), and the answer at once if it is nil.
UpdateFind(p) ==
    /\ ~Serving
    /\ \E req \in {Request("tx.update", p)} :
          IF findTxByID(mp, p.ID) = {}
          THEN \E r \in {rpcTxUpdate(mp, p, 0)} :
                  rpc' = [req |-> req, fault |-> r.fault, status |-> r.status,
                          body |-> r.body]
          ELSE rpc' = Found(req, Deref(mp, CHOOSE ptr \in findTxByID(mp, p.ID) : TRUE))
    /\ UNCHANGED <<mempoolVars, nodeVars>>

\* The rest of rpcTxUpdate: NewTxUpdate from existing, Update, the answer.
updateFound(m, p, existing, now) ==
    LET updated == NewTxUpdate(existing.ID, existing.Sender, existing.Recipient,
                               existing.Payload, p.Fee, existing.Gas,
                               existing.CreatedAt, now)
        r == Update(WithTx(m, updated), updated)
    IN  IF r.err # ErrNil
        THEN Handled(r.m, r.err, writeRPCError(StatusBadRequest, r.err))
        ELSE Handled(r.m, "", writeRPCResult(StatusOK, [ok |-> TRUE]))

UpdateApply(now) ==
    /\ InFlight
    /\ \E r \in {updateFound(mp, rpc.req.params, rpc.existing, now)} :
          /\ Install(r.m, NodeHeld(blocks, loop))
          /\ rpc' = [req |-> rpc.req, fault |-> r.fault, status |-> r.status,
                     body |-> r.body]
    /\ UNCHANGED nodeVars

\* Another caller's tx.add or tx.remove, served whole.
RaceOther(req, now) ==
    /\ ~Serving \/ InFlight
    /\ \E r \in {handleRPC(mp, blocks, req, now)} : Install(r.m, NodeHeld(blocks, loop))
    /\ UNCHANGED <<nodeVars, rpc>>

\* A step of the block loop, whatever the handler is doing.
RaceLoopStep ==
    /\ ~Serving \/ InFlight
    /\ \/ \E now \in TimeValues : RpcRunning /\ Tick(MkTime(now, UTC))
       \/ StoreBlock
       \/ MoveTip
    /\ UNCHANGED rpc

\* The caller of tx.update has its answer.
RaceExit ==
    /\ Serving /\ ~InFlight
    /\ rpc' = NoExchange
    /\ UNCHANGED <<mempoolVars, nodeVars>>

InitRace == InitRpc

NextRace ==
    \/ \E p \in RaceUpdateParams : UpdateFind(p) /\ UNCHANGED rpcFrame
    \/ \E now \in UpdateTimes : UpdateApply(now) /\ UNCHANGED rpcFrame
    \/ \E p \in RaceAddParams, now \in AddTimes :
          RpcRunning /\ RaceOther(Request("tx.add", p), now) /\ UNCHANGED rpcFrame
    \/ \E id \in RpcIds, now \in UpdateTimes :
          RaceOther(Request("tx.remove", [wellFormed |-> TRUE, ID |-> id]), now)
             /\ UNCHANGED rpcFrame
    \/ RaceLoopStep /\ UNCHANGED rpcFrame
    \/ RaceExit /\ UNCHANGED rpcFrame

SpecRace == InitRace /\ [][NextRace]_vars

(* --------------------------------- C33 -------------------------------- *)

\* The handler of tx.update has just written its answer.
UpdateAnswered ==
    /\ ~Serving \/ InFlight
    /\ Serving' /\ ~InFlight'
    /\ rpc'.req.method = "tx.update"

\* C33 as claimed: whatever the loop and other handlers do meanwhile, a
\* tx.update of an id is answered either with success, the transaction
\* being in the mempool with the new fee, or with the not-found failure and
\* status 200.
C33_UpdateAtomic ==
    [][UpdateAnswered =>
          \/ /\ rpc'.status = StatusOK /\ rpc'.fault = ""
             /\ \E tx \in ListTxs(mp)' :
                   tx.ID = rpc'.req.params.ID /\ tx.Fee = rpc'.req.params.Fee
          \/ rpc'.status = StatusOK /\ rpc'.fault = ErrTxNotFound]_vars

\* What does hold: the third answer, status 400 with 'mempool: tx not
\* found', is given exactly when the transaction the handler found is gone
\* by the time of its Update, and the mempool is then left as it is.
C33_ThirdOutcome ==
    [][UpdateAnswered =>
          \/ /\ rpc'.status = StatusOK /\ rpc'.fault = ""
             /\ \E tx \in ListTxs(mp)' :
                   tx.ID = rpc'.req.params.ID /\ tx.Fee = rpc'.req.params.Fee
          \/ rpc'.status = StatusOK /\ rpc'.fault = ErrTxNotFound /\ ~InFlight
          \/ /\ rpc'.status = StatusBadRequest /\ rpc'.fault = ErrTxNotFound
             /\ InFlight
             /\ rpc.req.params.ID \notin Ids(ListTxs(mp))
             /\ UNCHANGED mempoolVars]_vars

(* --------------------------------- C34 -------------------------------- *)

\* The transactions of the mempool before the call that pay the MinFee of
\* the call, in the priority order.
Payers == InPriorityOrder({t \in ListTxs(last.before) : t.Fee >= last.c.MinFee})

Min(a, b) == IF a <= b THEN a ELSE b

\* A call with GasLimit 0 skipped nothing and returned the first
\* min(MaxTx, number of payers) payers.
FirstPayers ==
    /\ last.kept = << >>
    /\ last.txs = SubSeq(Payers, 1, Min(last.c.MaxTx, Len(Payers)))

\* C34 as claimed: with GasLimit 0 SelectTransactions skips nothing and
\* returns the min(MaxTx, number of transactions with Fee >= MinFee)
\* transactions of highest priority among those with Fee >= MinFee, and
\* GasUsed is the sum of their gas.
C34_NoGasLimit ==
    Returned("Select") /\ last.c.GasLimit = 0 =>
        FirstPayers /\ last.gasUsed = SumGas(last.txs)

\* What does hold: the same, with GasUsed the sum modulo 2^UintBits.
C34_NoGasLimitModuloWrap ==
    Returned("Select") /\ last.c.GasLimit = 0 =>
        FirstPayers /\ last.gasUsed = SumGas(last.txs) % UintMod

(* --------------------------------- C35 -------------------------------- *)

\* What a caller of SelectTransactions(c) on the mempool m gets and leaves.
Outcome(m, c) ==
    LET r == SelectTransactions(m, c)
    IN  [txs |-> Read(r.m, r.txs), gasUsed |-> r.gasUsed, left |-> ListTxs(r.m)]

\* The Update that has returned was given the fields the mempool had.
SameFields == Returned("Update") /\ last.err = ErrNil /\ last.tx \in ListTxs(last.before)

\* C35: after an Update with the fields of the stored transaction, List is
\* what it was, every SelectTransactions returns and leaves what it would
\* have before the Update, and the same Update once more changes neither.
C35_SameFieldsNoOp ==
    SameFields =>
        /\ ListTxs(mp) = ListTxs(last.before)
        /\ HeapTxs(mp) = HeapTxs(last.before)
        /\ \A c \in Constraints : Outcome(mp, c) = Outcome(last.before, c)
        /\ \E again \in {Update(WithTx(mp, last.tx), last.tx)} :
              /\ again.err = ErrNil
              /\ ListTxs(again.m) = ListTxs(mp)
              /\ \A c \in Constraints : Outcome(again.m, c) = Outcome(mp, c)

\* An Update with the stored fields of a transaction that is not at the
\* root of a heap of three or more.
C35_Witness ==
    /\ SameFields
    /\ Len(heap) >= 3
    /\ recs[table[last.id]].index > 0

(* --------------------------------- C36 -------------------------------- *)

\* C36 as claimed: under a GasLimit above zero, the gas of the transactions
\* SelectTransactions returns, added up as numbers are added, is not above
\* the GasLimit and is the GasUsed it returns.
C36_GasCheckSound ==
    Returned("Select") /\ last.c.GasLimit > 0 =>
        /\ SumGas(last.txs) <= last.c.GasLimit
        /\ SumGas(last.txs) = last.gasUsed

\* What does hold: the GasUsed returned is that sum modulo 2^UintBits and
\* is not above the GasLimit, and a call whose returned transactions'
\* gas adds up to less than 2^UintBits is sound.
C36_SoundModuloWrap ==
    Returned("Select") /\ last.c.GasLimit > 0 =>
        /\ last.gasUsed = SumGas(last.txs) % UintMod
        /\ last.gasUsed <= last.c.GasLimit
        /\ SumGas(last.txs) < UintMod => SumGas(last.txs) <= last.c.GasLimit

(* --------------------------------- C37 -------------------------------- *)

\* The mempool that holds the transactions S after nothing but their Adds,
\* in the order of their ids.
RECURSIVE AddedInIdOrder(_, _)
AddedInIdOrder(m, S) ==
    IF S = {} THEN m
    ELSE LET tx == CHOOSE t \in S : \A u \in S : t.ID <= u.ID
         IN  AddedInIdOrder(Add(WithTx(m, tx), tx).m, S \ {tx})

\* The transactions of the heap slice of m, position by position.
Layout(m) == [k \in 1..Len(m.heap) |-> Deref(m, m.recs[m.heap[k]].tx)]

\* C37: whatever calls made the mempool, every SelectTransactions returns
\* the sequence and the GasUsed, and leaves the set, that the same call
\* returns and leaves on the mempool made by adding the same transactions in
\* the order of their ids; so any two mempools holding the same transactions
\* agree under every constraint.
C37_HistoryIndependent ==
    Returned("Select") =>
        \E fresh \in {AddedInIdOrder(NewMempool, ListTxs(last.before))} :
            /\ ListTxs(fresh) = ListTxs(last.before)
            /\ Outcome(fresh, last.c) =
                  [txs |-> last.txs, gasUsed |-> last.gasUsed, left |-> ListTxs(mp)]

\* A SelectTransactions that took two transactions or more from a mempool
\* of four or more, two of them equal in fee and timestamp, whose heap slice
\* was laid out otherwise than that of the mempool made by adding its
\* transactions in id order.
C37_Witness ==
    /\ Returned("Select")
    /\ Len(last.txs) >= 2
    /\ Len(last.before.heap) >= 4
    /\ Layout(last.before) # Layout(AddedInIdOrder(NewMempool, ListTxs(last.before)))
    /\ \E a, b \in ListTxs(last.before) :
          a # b /\ a.Fee = b.Fee /\ a.Timestamp = b.Timestamp

(* ------------------------------ progress ------------------------------ *)

\* The node with the loop ticking for ever and clients that fall silent.
\* inputs holds the tx.add requests the clients have yet to make: each is
\* made once at most, and tx.update and tx.remove come only while some are
\* left; a run has as many blocks as accepted requests at most.  The clock
\* of a tick reads the last instant.

\* What the clients submit: one transaction that fills a GasLimit of 2, one
\* that fits beside nothing that fills it, and one over every positive
\* GasLimit.
ProgressIds == {1, 2, 3}
ProgressGas(id) == CASE id = 1 -> 2 [] id = 2 -> 1 [] OTHER -> MaxUint
ProgressFee(id) == IF id = 2 THEN 1 ELSE 2
ProgressTxs ==
    {MkTx(id, ProgressFee(id), ProgressGas(id), CreatedAt(id)) : id \in ProgressIds}

\* The tx.add requests of a run: one for each transaction, and a second for
\* the transaction of id 2 (same sender, recipient and payload at the same
\* clock reading).
Requests ==
    {[tx |-> tx, nth |-> 1] : tx \in ProgressTxs}
    \cup {[tx |-> tx, nth |-> 2] : tx \in {t \in ProgressTxs : t.ID = 2}}

\* No request comes through the RPC any more.
Quiet == inputs = {}

progressFrame == <<last, taskVars, gone, hashVars, txVars, rpcVars, runVars>>

\* case <-ticker.C: BuildBlock; on ErrEmptyBlock continue.
ProgressTick(now) ==
    /\ loop.pc = "wait"
    /\ \E r \in {BuildBlock(mp, cfg, loop.prevHash, loop.height, now)} :
          /\ loop' = IF r.err = ErrEmptyBlock
                     THEN [loop EXCEPT !.missed = TRUE]
                     ELSE [loop EXCEPT !.pc = "built", !.block = r.block]
          /\ Install(r.m, NodeHeld(blocks, loop'))
    /\ UNCHANGED <<cfg, blocks, resub, inputs, progressFrame>>

ProgressStoreBlock == StoreBlock /\ UNCHANGED <<inputs, progressFrame>>

ProgressMoveTip == MoveTip /\ UNCHANGED <<inputs, progressFrame>>

\* tx.add: NewUnsignedTx, then Add.
ProgressTxAdd(req) ==
    /\ req \in inputs
    /\ inputs' = inputs \ {req}
    /\ \E tx \in {req.tx}, r \in {Add(WithTx(mp, req.tx), req.tx)} :
          /\ Install(r.m, NodeHeld(blocks, loop))
          /\ resub' = IF r.err = ErrNil /\ tx.ID \in TakenIds
                      THEN resub \cup {tx.ID} ELSE resub
    /\ UNCHANGED <<cfg, blocks, loop, progressFrame>>

\* tx.update: findTxByID over List, NewTxUpdate, then Update.
ProgressTxUpdate(id, fee, now) ==
    /\ ~Quiet
    /\ \E existing \in ListTxs(mp) :
          /\ existing.ID = id
          /\ \E updated \in {UpdatedTx(existing, fee, now)} :
                \E r \in {Update(WithTx(mp, updated), updated)} :
                    Install(r.m, NodeHeld(blocks, loop))
    /\ UNCHANGED <<cfg, blocks, loop, resub, inputs, progressFrame>>

\* tx.remove
ProgressTxRemove(id) ==
    /\ ~Quiet
    /\ \E r \in {Remove(mp, id)} : Install(r.m, NodeHeld(blocks, loop))
    /\ UNCHANGED <<cfg, blocks, loop, resub, inputs, progressFrame>>

\* The clients make no further request.
Quiesce ==
    /\ ~Quiet
    /\ inputs' = {}
    /\ UNCHANGED <<mempoolVars, nodeVars, progressFrame>>

InitProgress ==
    /\ EmptyMempool
    /\ last = NoCall
    /\ inputs = Requests
    /\ NoTasks
    /\ NoHistory
    /\ NoHashes
    /\ NoMade
    /\ NoRpc
    /\ NoRun
    /\ cfg \in Constraints
    /\ blocks = << >>
    /\ loop = LoopStart
    /\ resub = {}

\* The loop takes a tick.
ProgressTicks == \E now \in UpdateTimes : ProgressTick(MkTime(now, UTC))

NextProgress ==
    \/ ProgressTicks
    \/ ProgressStoreBlock
    \/ ProgressMoveTip
    \/ \E req \in inputs : ProgressTxAdd(req)
    \/ \E id \in ProgressIds, fee \in FeeValues, now \in UpdateTimes :
          ProgressTxUpdate(id, fee, now)
    \/ \E id \in ProgressIds : ProgressTxRemove(id)
    \/ Quiesce

SpecProgress == InitProgress /\ [][NextProgress]_vars

\* A tick would change the state: it builds a block, or it is the first
\* since the last block to build none, or it purges.
TickChanges ==
    /\ loop.pc = "wait"
    /\ \E now \in UpdateTimes :
          \E r \in {BuildBlock(mp, cfg, loop.prevHash, loop.height, MkTime(now, UTC))} :
              r.err = ErrNil \/ ~loop.missed \/ ListTxs(r.m) # ListTxs(mp)

\* The ticker fires again and again and the loop, which nothing stops here,
\* takes every tick and runs the pass for it to the end: weak fairness of
\* the three steps of the loop, that of the tick written with the states in
\* which a tick changes something.
FairProgress ==
    /\ SpecProgress
    /\ []<>(~TickChanges) \/ []<><<ProgressTicks>>_vars
    /\ WF_vars(ProgressStoreBlock)
    /\ WF_vars(ProgressMoveTip)

(* --------------------------------- C38 -------------------------------- *)

\* A transaction the configured constraints admit when it stands alone.
Eligible(tx) ==
    /\ tx.Fee >= cfg.MinFee
    /\ cfg.GasLimit = 0 \/ tx.Gas <= cfg.GasLimit

\* The clients are silent, a block may hold a transaction, and the mempool
\* holds an eligible transaction of the id.
Waiting(id) ==
    /\ Quiet
    /\ cfg.MaxTx >= 1
    /\ \E tx \in ListTxs(mp) : tx.ID = id /\ Eligible(tx)

\* The blocks of the chain that hold a transaction of the id.
BlocksOf(id) == {i \in 1..Len(blocks) : id \in BlockIds(blocks[i])}

\* A tick that finds an eligible transaction builds a block; the block built
\* is what the tick's selection accepted; and the append puts that block,
\* and so every transaction of it, at the end of the chain, which it does
\* whenever a block is built.
TicksAppend ==
    /\ [](AtTickBoundary /\ cfg.MaxTx >= 1 /\ (\E tx \in ListTxs(mp) : Eligible(tx))
            => \A now \in UpdateTimes :
                  BuildBlock(mp, cfg, loop.prevHash, loop.height, MkTime(now, UTC)).err = ErrNil)
    /\ [][/\ loop.pc = "wait" /\ loop'.pc = "built"
              => loop'.block.Transactions = SelectTransactions(mp, cfg).txs
          /\ loop.pc = "built" /\ loop'.pc # "built"
              => /\ blocks' = Append(blocks, loop.block)
                 /\ BlockIds(loop.block) \subseteq UNION
                       {{objs'[blocks'[i].Transactions[k]].ID :
                            k \in 1..Len(blocks'[i].Transactions)} : i \in 1..Len(blocks')}]_vars
    /\ [](loop.pc = "built" => <>(loop.pc = "stored"))

\* C38 as claimed: with ticks that keep coming, MaxTxPerBlock of one or
\* more and clients that have fallen silent, every eligible transaction in
\* the mempool comes to be in exactly one block of the chain, every tick
\* that finds an eligible transaction appends a block, and what a tick's
\* selection accepted is in the chain once the append is done.
C38_Progress ==
    /\ \A id \in ProgressIds :
          [](Waiting(id) => <>[](Cardinality(BlocksOf(id)) = 1))
    /\ TicksAppend

\* C38 amended: the same, but a transaction whose id a block already took
\* before tx.add submitted it again comes to be in one block more.
C38_ProgressUnlessAddedAgain ==
    /\ \A id \in ProgressIds :
          /\ [](Waiting(id) => <>[](id \in ChainIds /\ id \notin Ids(ListTxs(mp))))
          /\ [](Waiting(id) /\ id \notin resub => <>[](Cardinality(BlocksOf(id)) = 1))
    /\ TicksAppend

\* The clients are silent, nothing was submitted twice, the loop has built
\* two blocks or more under a GasLimit and a tick after them found nothing
\* to take: the transaction that fills the limit and the one that fits
\* beside nothing that fills it are in different blocks, and the one over
\* the limit is still in the mempool.
C38_Witness ==
    /\ Quiet
    /\ resub = {}
    /\ cfg.GasLimit > 0
    /\ cfg.MaxTx > 1
    /\ AtTickBoundary
    /\ loop.missed
    /\ Len(blocks) >= 2
    /\ BlocksOf(1) # {}
    /\ BlocksOf(2) # {}
    /\ BlocksOf(1) # BlocksOf(2)
    /\ 3 \in Ids(ListTxs(mp))

(* --------------------------------- C39 -------------------------------- *)

\* A transaction that pays the fee and whose own gas is over a positive
\* GasLimit.
OverLimit(tx) ==
    /\ cfg.GasLimit > 0
    /\ tx.Gas > cfg.GasLimit
    /\ tx.Fee >= cfg.MinFee

\* What a tick does to the mempool it finds, whatever the clock reads.
TickOutcome == BuildBlock(mp, cfg, loop.prevHash, loop.height, MkTime(0, UTC))

\* A mempool holding over-limit transactions and nothing else yields no
\* block, and a step of the loop waiting over it leaves the chain, the
\* height and prevHash as they are.
OnlyOverLimit == ListTxs(mp) # {} /\ \A tx \in ListTxs(mp) : OverLimit(tx)

NoBlockOfOverLimit ==
    /\ [](OnlyOverLimit => TickOutcome.err = ErrEmptyBlock /\ TickOutcome.m = mp)
    /\ [][loop.pc = "wait" /\ OnlyOverLimit =>
              /\ blocks' = blocks
              /\ loop'.pc = "wait"
              /\ loop'.height = loop.height
              /\ loop'.prevHash = loop.prevHash]_vars

\* C39 as claimed: an over-limit transaction is in no block, a tick that
\* finds it in the mempool leaves it there, and while the mempool holds
\* nothing else every tick produces no block and leaves height and prevHash.
C39_OverLimitStays ==
    /\ [](\A b \in NodeBlocks : \A tx \in Elems(Read(mp, b.Transactions)) : ~OverLimit(tx))
    /\ [](\A tx \in ListTxs(mp) : OverLimit(tx) => tx \in ListTxs(TickOutcome.m))
    /\ NoBlockOfOverLimit

\* What does hold: no tick purges an over-limit transaction, which a tick
\* leaves in the mempool or takes into its block; a block holds one only
\* after transactions whose gas with its own adds up to 2^UintBits or more;
\* and a mempool of nothing else yields no block.
C39_StaysUnlessGasWraps ==
    /\ [](\A tx \in ListTxs(mp) :
            OverLimit(tx) => \/ tx \in ListTxs(TickOutcome.m)
                             \/ tx \in Elems(Read(TickOutcome.m, TickOutcome.block.Transactions)))
    /\ [](\A b \in NodeBlocks :
            \A k \in 1..Len(b.Transactions) :
                OverLimit(Deref(mp, b.Transactions[k])) =>
                    /\ k > 1
                    /\ SumGas(Read(mp, SubSeq(b.Transactions, 1, k))) >= UintMod)
    /\ NoBlockOfOverLimit

====
